---- MODULE Spec2Model ----
(***************************************************************************)
(* Model of thordata-llm-code-share: the bundle builder and its cache      *)
(* (llm_server.py), the content server's request handlers                  *)
(* (llm_server.py, llm_multi_server.py) and the tunnel launchers           *)
(* (start_quick_tunnel.py, start_multi_repo_tunnel.py,                     *)
(* start_multi_tunnel.py).                                                 *)
(*                                                                         *)
(* Sizes are counted in abstract bytes: a file's content has 0..MaxSize    *)
(* bytes, a block header BlockHeaderLen bytes and the bundle header        *)
(* HeaderLen bytes.  Relative paths are the numbers 1..MaxFiles; the       *)
(* order of the numbers is the lexicographic order of the paths.           *)
(***************************************************************************)
EXTENDS Integers, Sequences, FiniteSets, TLC

\* ------------------------------------------------------------------ bounds
MaxFiles == 2
MaxSize == 2
MinChunk == 1
MaxChunk == 4

\* Length of the bundle header written at the start of the first chunk
\* (llm_server.py 256-264), in abstract bytes; it is never empty.
HeaderLen == 2
\* Length of one block header (llm_server.py 295-301), in abstract bytes.
BlockHeaderLen == 1

Paths == 1..MaxFiles

\* What one directory entry is to the builder:
\*   absent      no such file
\*   ignored     dropped by is_ignored_dir / is_ignored_file / is_ignored_ext /
\*               islink inside iter_repo_files
\*   binary      looks_binary returns True (NUL in the first 4 KiB, or the
\*               open failed)
\*   unreadable  looks_binary returns False but safe_read_text raises
\*   text        read and packed
\* and, told apart where /file looks at one entry by itself, a readable text
\* file that iter_repo_files drops because
\*   in_ignored_dir  a directory above it is dropped by is_ignored_dir
\*   ignored_name    is_ignored_file(name) holds
\*   ignored_ext     is_ignored_ext(ext) holds
\*   symlink         os.path.islink(full) holds (a link to a text file)
Kinds == {"absent", "ignored", "binary", "unreadable", "text"}

IgnoredKinds == {"ignored", "in_ignored_dir", "ignored_name", "ignored_ext", "symlink"}

FileRecs ==
    [kind : {"absent", "ignored", "binary", "unreadable"}, size : {0}]
        \cup [kind : {"text"}, size : 0..MaxSize]

Trees == [Paths -> FileRecs]

VARIABLES
    tree,                   \* the served source tree
    chunk_bytes,            \* --chunk-bytes
    max_single_file_bytes,  \* --max-single-file-bytes
    disk,                   \* the cache directory: meta.json, index.txt, bundle_NNNN.txt
    last,                   \* what the latest build_bundles call returned and packed
    prev,                   \* the same for the call before it
    auto_build,             \* --auto-build
    lock,                   \* build_lock / repo.lock: the handler thread holding it, 0 when free
    pc,                     \* where each handler thread is
    req,                    \* the request each handler thread is serving
    loc,                    \* each handler thread's local variables
    resp,                   \* what each handler thread answered
    blog,                   \* one entry per run of build_bundles begun: what triggered it
    edits,                  \* how often the source tree was changed
    launcher,               \* which launcher script runs
    public_check,           \* --public-check
    lpc,                    \* where the launcher's main is
    server_proc,            \* the server child: none (not spawned), running, exited
    cf_proc,                \* the tunnel client child, likewise
    terminated,             \* the children terminate() was called on
    term_log,               \* the terminate() calls in order, each with whether it raised
    pipe,                   \* lines the tunnel client wrote that the pump has not read
    err_q,                  \* number of entries in err_q / err_queue
    url_q,                  \* number of entries in url_q / url_queue
    public_url,             \* TRUE once the wait loop took a URL
    fail_line,              \* TRUE once the wait loop took a failure line
    wait_end,               \* how the URL wait loop was left
    ticks,                  \* iterations of the wait loop that slept
    exit_code,              \* the launcher's exit status
    emitted,                \* what the tunnel client did, in order: url, fail, exit
    fpath,                  \* /file: the raw value of ?path= in the request line
    fsep,                   \* /file: the platform's os.path flavour
    fresp,                  \* /file: the answer
    fentry,                 \* /file: what the file system holds at the path asked for
    repo_lock,              \* multi server: RepoSpec.lock of each repository, its holder or 0
    cached,                 \* multi server: whether a repository's meta.json and index.txt exist
    mpc,                    \* multi server: where each handler thread is
    mreq,                   \* multi server: the request each handler thread is serving
    cf_out,                 \* pump: the lines the tunnel client writes to its stdout
    ppc,                    \* pump: where the pump thread is
    matched,                \* pump: m.group(1) of the last line read, <<>> without a match
    nread,                  \* pump: how many lines the pump thread has read
    url_queue,              \* pump: the hosts of the URLs put on url_q / url_queue
    err_queue,              \* pump: the lines put on err_q / err_queue
    fp_paths,               \* fingerprint: the list of relative paths at hand
    fp_calls,               \* fingerprint: the calls made, each with its input and digests
    un_items,               \* uniquify_names: the names of the --repo arguments, in order
    un_out,                 \* uniquify_names: the names returned and the repos map made of them
    port_busy,              \* port selection: the ports another process is bound to
    port_auto,              \* port selection: --auto-port
    port_pc,                \* port selection: where it is
    port_p,                 \* port selection: the candidate port
    port_tries,             \* port selection: iterations of pick_free_port's loop so far
    tr_file,                \* truncation: the characters of the file at hand
    tr_limit,               \* truncation: max_single_file_bytes
    tr_block,               \* truncation: the block written for the file
    cache_dirname,          \* cache directory: --cache-dirname, as path components
    src_files,              \* cache directory: the entries of the served tree outside it
    cache_files,            \* cache directory: the files build_bundles has written into it
    cache_log               \* cache directory: per build, what Discovery yielded and the bundle's size

bvars == <<tree, chunk_bytes, max_single_file_bytes, disk, last, prev>>
svars == <<auto_build, lock, pc, req, loc, resp, blog, edits>>
lvars == <<launcher, public_check, lpc, server_proc, cf_proc, terminated, term_log, pipe,
           err_q, url_q, public_url, fail_line, wait_end, ticks, exit_code, emitted>>
fvars == <<fpath, fsep, fresp, fentry>>
mvars == <<repo_lock, cached, mpc, mreq>>
pvars == <<cf_out, ppc, nread, matched, url_queue, err_queue>>
uvars == <<fp_paths, fp_calls, un_items, un_out, port_busy, port_auto, port_pc, port_p,
           port_tries, tr_file, tr_limit, tr_block>>
cvars == <<cache_dirname, src_files, cache_files, cache_log>>
vars == <<bvars, svars, lvars, fvars, mvars, pvars, uvars, cvars>>

\* the launcher before main runs
LauncherIdle ==
    /\ launcher = "quick"
    /\ public_check = "off"
    /\ lpc = "start"
    /\ server_proc = "none"
    /\ cf_proc = "none"
    /\ terminated = {}
    /\ term_log = <<>>
    /\ pipe = <<>>
    /\ err_q = 0
    /\ url_q = 0
    /\ public_url = FALSE
    /\ fail_line = FALSE
    /\ wait_end = "none"
    /\ ticks = 0
    /\ exit_code = 0
    /\ emitted = <<>>

\* the multi-repository server with no request
NRepos == 2

Repos == 1..NRepos

MultiIdle ==
    /\ repo_lock = [r \in Repos |-> 0]
    /\ cached = [r \in Repos |-> FALSE]
    /\ mpc = <<>>
    /\ mreq = <<>>

\* no block written
NoBlock == [done |-> FALSE, size |-> 0, truncated |-> FALSE, content |-> <<>>]

\* no call of fingerprint_file_list or uniquify_names, no port selection, no
\* file read
UtilIdle ==
    /\ fp_paths = <<>>
    /\ fp_calls = <<>>
    /\ un_items = <<>>
    /\ un_out = [called |-> FALSE, names |-> <<>>, repos |-> <<>>]
    /\ port_busy = {}
    /\ port_auto = FALSE
    /\ port_pc = "none"
    /\ port_p = 0
    /\ port_tries = 0
    /\ tr_file = <<>>
    /\ tr_limit = 0
    /\ tr_block = NoBlock

\* the default --cache-dirname, nothing served and nothing built
CacheIdle ==
    /\ cache_dirname = <<".llm_cache">>
    /\ src_files = {}
    /\ cache_files = {}
    /\ cache_log = <<>>

\* no pump thread
PumpIdle ==
    /\ cf_out = <<>>
    /\ ppc = "none"
    /\ nread = 0
    /\ matched = <<>>
    /\ url_queue = <<>>
    /\ err_queue = <<>>

\* nothing at the path: os.path.isfile is False, and the name and extension
\* are not on the ignore lists
NoEntry == [isfile |-> FALSE, name_ignored |-> FALSE, ext_ignored |-> FALSE,
            binary |-> FALSE]

\* no /file request
FileIdle ==
    /\ fpath = <<>>
    /\ fsep = "posix"
    /\ fresp = [status |-> "none", full |-> <<>>]
    /\ fentry = NoEntry

\* ------------------------------------------------------------- helpers
RECURSIVE Perms(_)
Perms(S) ==
    IF S = {} THEN {<<>>}
    ELSE UNION {{<<x>> \o p : p \in Perms(S \ {x})} : x \in S}

Range(s) == {s[i] : i \in 1..Len(s)}

Min(S) == CHOOSE x \in S : \A y \in S : x <= y

\* list.sort() on relative paths
RECURSIVE Sorted(_)
Sorted(S) ==
    IF S = {} THEN <<>> ELSE <<Min(S)>> \o Sorted(S \ {Min(S)})

RECURSIVE SumSeq(_)
SumSeq(s) == IF s = <<>> THEN 0 ELSE Head(s) + SumSeq(Tail(s))

\* ------------------------------------------------------------- Discovery
\* os.walk returns a directory's entries in whatever order the file system
\* lists them: walk is any permutation of the entries that exist.
WalkOrders(t) == Perms({p \in Paths : t[p].kind # "absent"})

\* iter_repo_files: the entries of the walk that pass the directory, name,
\* extension and symlink rules, in walk order.
iter_repo_files(t, walk) ==
    SelectSeq(walk, LAMBDA p : t[p].kind \notin IgnoredKinds)

\* looks_binary with the sniff left out
looks_binary_never(t, p) == FALSE

\* looks_binary
looks_binary(t, p) == t[p].kind = "binary"

\* fingerprint_file_list: SHA-1 of the paths, each followed by a newline, in
\* the order given.  The digest is modelled by the hashed byte stream itself
\* (SHA-1 taken as collision free), which is the sequence of paths.
fingerprint_file_list(rel_paths) == rel_paths

\* ------------------------------------------------------------- Bundle Builder
\* A chunk is a sequence of pieces <<file, bytes>>; file 0 is the bundle header.
EmptyPack == [parts |-> <<>>, current |-> <<>>, current_size |-> 0, files_included |-> 0]

\* flush_part (llm_server.py 266-272)
flush_part(st) ==
    IF st.current_size <= 0 THEN st
    ELSE [st EXCEPT !.parts = Append(st.parts, st.current),
                    !.current = <<>>,
                    !.current_size = 0]

\* the bytes safe_read_text returns for a file of this size, for content
\* that decoding and encoding leave as it is (the decoding is modelled with
\* safe_read_text below)
ReadLen(size, ms) == IF size >= 0 /\ size > ms THEN ms ELSE size

Truncated(size, ms) == size >= 0 /\ size > ms

\* len(block_bytes) of a file's block
BlockLen(t, p, ms) == BlockHeaderLen + ReadLen(t[p].size, ms)

\* the packing loop with a seal test that never fires once the chunk holds
\* something (">" taken against the wrong operand)
PackFile_NoSeal(st, t, p, cb, ms) ==
    IF looks_binary(t, p) THEN st
    ELSE IF t[p].kind = "unreadable" THEN st
    ELSE
        LET n == BlockLen(t, p, ms)
            s1 == IF st.current_size + n > cb /\ st.current_size > cb + n
                  THEN flush_part(st) ELSE st
        IN  [s1 EXCEPT !.current = Append(s1.current, <<p, n>>),
                       !.current_size = s1.current_size + n,
                       !.files_included = s1.files_included + 1]

\* the packing loop sealing only a chunk that already exceeds chunk_bytes
PackFile_SealLate(st, t, p, cb, ms) ==
    IF looks_binary(t, p) THEN st
    ELSE IF t[p].kind = "unreadable" THEN st
    ELSE
        LET n == BlockLen(t, p, ms)
            s1 == IF st.current_size > cb /\ st.current_size > 0
                  THEN flush_part(st) ELSE st
        IN  [s1 EXCEPT !.current = Append(s1.current, <<p, n>>),
                       !.current_size = s1.current_size + n,
                       !.files_included = s1.files_included + 1]

\* the packing loop writing an empty block for a file that cannot be read
PackFile_KeepUnreadable(st, t, p, cb, ms) ==
    IF looks_binary(t, p) THEN st
    ELSE
        LET n == IF t[p].kind = "unreadable" THEN BlockHeaderLen ELSE BlockLen(t, p, ms)
            s1 == IF st.current_size + n > cb /\ st.current_size > 0
                  THEN flush_part(st) ELSE st
        IN  [s1 EXCEPT !.current = Append(s1.current, <<p, n>>),
                       !.current_size = s1.current_size + n,
                       !.files_included = s1.files_included + 1]

\* the packing loop filling the current chunk up to chunk_bytes with the
\* head of a block that does not fit, and starting the next chunk with the rest
PackFile_Split(st, t, p, cb, ms) ==
    IF looks_binary(t, p) THEN st
    ELSE IF t[p].kind = "unreadable" THEN st
    ELSE
        LET n == BlockLen(t, p, ms)
            room == cb - st.current_size
        IN  IF st.current_size + n > cb /\ st.current_size > 0 /\ room > 0
            THEN LET s1 == flush_part([st EXCEPT !.current = Append(st.current, <<p, room>>),
                                                 !.current_size = cb])
                 IN  [s1 EXCEPT !.current = <<<<p, n - room>>>>,
                                !.current_size = n - room,
                                !.files_included = st.files_included + 1]
            ELSE LET s1 == IF st.current_size + n > cb /\ st.current_size > 0
                           THEN flush_part(st) ELSE st
                 IN  [s1 EXCEPT !.current = Append(s1.current, <<p, n>>),
                                !.current_size = s1.current_size + n,
                                !.files_included = s1.files_included + 1]

\* one iteration of the packing loop (llm_server.py 275-311)
PackFile(st, t, p, cb, ms) ==
    IF looks_binary(t, p) THEN st
    ELSE IF t[p].kind = "unreadable" THEN st
    ELSE
        LET n == BlockLen(t, p, ms)
            s1 == IF st.current_size + n > cb /\ st.current_size > 0
                  THEN flush_part(st) ELSE st
        IN  [s1 EXCEPT !.current = Append(s1.current, <<p, n>>),
                       !.current_size = s1.current_size + n,
                       !.files_included = s1.files_included + 1]

RECURSIVE PackAll(_, _, _, _, _)
PackAll(st, t, files, cb, ms) ==
    IF files = <<>> THEN st
    ELSE PackAll(PackFile(st, t, Head(files), cb, ms), t, Tail(files), cb, ms)

\* the in-memory result of build_bundles before anything is written
\* (llm_server.py 243-313).  Both discovery passes of one run list the
\* unchanged directories in the same order, walk; the first pass sorts what
\* it found, the second packs in the order found.
Packed(t, walk, cb, ms) ==
    LET rel_paths == Sorted(Range(iter_repo_files(t, walk)))
        st0 == [EmptyPack EXCEPT !.current = <<<<0, HeaderLen>>>>,
                                 !.current_size = HeaderLen]
        st  == flush_part(PackAll(st0, t, iter_repo_files(t, walk), cb, ms))
    IN  [fingerprint |-> fingerprint_file_list(rel_paths),
         parts |-> st.parts,
         files_included |-> st.files_included]

\* the manifest build_bundles returns and writes (llm_server.py 324-335).
\* gen stands for generated_at: which run of build_bundles made it.
Meta(pk, cb, ms, gen) ==
    [fingerprint |-> pk.fingerprint,
     chunk_bytes |-> cb,
     max_single_file_bytes |-> ms,
     bundle_count |-> Len(pk.parts),
     bundle_files |-> [i \in 1..Len(pk.parts) |-> i],
     files_included |-> pk.files_included,
     gen |-> gen]

NoMeta ==
    [fingerprint |-> <<>>, chunk_bytes |-> 0, max_single_file_bytes |-> 0,
     bundle_count |-> 0, bundle_files |-> <<>>, files_included |-> 0, gen |-> 0]

\* index.txt (llm_server.py 341-356): derived from the manifest
Index(meta) ==
    [fingerprint |-> meta.fingerprint, bundles |-> meta.bundle_count,
     gen |-> meta.gen]

\* A file of the cache directory: st is absent, empty (opened for writing,
\* nothing written yet) or full; body is what it holds when full.
AbsentMeta == [st |-> "absent", body |-> NoMeta]
AbsentIndex == [st |-> "absent", body |-> Index(NoMeta)]

\* bundles[i] is bundle_<i>.txt; the names in use are always 1..Len(bundles)
NoDisk == [meta |-> AbsentMeta, index |-> AbsentIndex, bundles |-> <<>>]

BundleFile(gen, pieces) == [st |-> "full", gen |-> gen, pieces |-> pieces]

\* the bundle files after the loop of llm_server.py 316-322 wrote parts:
\* names 1..Len(parts) are overwritten, every other file stays
WriteBundles(old, parts, gen) ==
    [i \in 1..(IF Len(parts) > Len(old) THEN Len(parts) ELSE Len(old)) |->
        IF i <= Len(parts) THEN BundleFile(gen, parts[i]) ELSE old[i]]

\* the cache directory after a whole run of build_bundles
AfterBuild(d, pk, cb, ms, gen) ==
    [meta |-> [st |-> "full", body |-> Meta(pk, cb, ms, gen)],
     index |-> [st |-> "full", body |-> Index(Meta(pk, cb, ms, gen))],
     bundles |-> WriteBundles(d.bundles, pk.parts, gen)]

\* what build_bundles packed, before its first call
NoBuild == [gen |-> 0, parts |-> <<>>, files_included |-> 0]

\* an empty tree and an empty cache directory
BuilderIdle ==
    /\ tree = [p \in Paths |-> [kind |-> "absent", size |-> 0]]
    /\ chunk_bytes = MaxChunk
    /\ max_single_file_bytes = MaxSize
    /\ disk = NoDisk
    /\ last = NoBuild
    /\ prev = NoBuild

\* ------------------------------------------------------------- Content Server
\* Handler threads (ThreadingHTTPServer: one thread per request, which ends
\* when do_GET returns).
NThreads == 2
MaxEdits == 1

Threads == 1..NThreads

\* part: the ?part= parameter; given is FALSE when it is missing, isint is
\* FALSE when int(part) raises ValueError
NoPart == [given |-> FALSE, isint |-> FALSE, n |-> 0]
NoReq == [kind |-> "none", refresh |-> FALSE, part |-> NoPart, path |-> 0]

Requests ==
    [kind : {"build"}, refresh : BOOLEAN, part : {NoPart}, path : {0}]
    \cup [kind : {"meta"}, refresh : {FALSE}, part : {NoPart}, path : {0}]
    \cup [kind : {"all"}, refresh : {FALSE},
          part : {NoPart, [given |-> TRUE, isint |-> TRUE, n |-> 1]}, path : {0}]

NoLoc == [parts |-> <<>>, gen |-> 0, i |-> 0, meta |-> NoMeta]

\* A response.  what: none (nothing sent yet), text (a fixed message),
\* manifest (json.dumps of the manifest, /build), metafile, indexfile,
\* bundlefile (the file's bytes as read), dropped (an exception left do_GET:
\* the connection is closed without a response).
NoResp == [status |-> 0, what |-> "none", fst |-> "absent", meta |-> NoMeta,
           gen |-> 0, pieces |-> <<>>]

Text(code) == [NoResp EXCEPT !.status = code, !.what = "text"]

ServerIdle ==
    /\ auto_build = FALSE
    /\ lock = 0
    /\ pc = [t \in Threads |-> "idle"]
    /\ req = [t \in Threads |-> NoReq]
    /\ loc = [t \in Threads |-> NoLoc]
    /\ resp = [t \in Threads |-> NoResp]
    /\ blog = <<>>
    /\ edits = 0

\* threading.Lock.acquire as if every handler had a lock of its own
CanAcquire_NoLock(t) == TRUE

\* with build_lock: / with repo.lock: blocks while another thread holds it
CanAcquire(t) == lock = 0

\* the build-or-reuse test rebuilding on every request
NeedBuild_Always(refresh, d) == TRUE

\* refresh or (not os.path.exists(meta_path))
NeedBuild(refresh, d) == refresh \/ d.meta.st = "absent"

\* not os.path.exists(meta_path) or not os.path.exists(index_path)
Missing(d) == d.meta.st = "absent" \/ d.index.st = "absent"

Release(t) == IF lock = t THEN 0 ELSE lock

\* do_GET is entered with a request.  Handler threads are interchangeable:
\* they are numbered in the order their requests arrive.
Receive(t) ==
    /\ pc[t] = "idle"
    /\ \A u \in Threads : u < t => pc[u] # "idle"
    /\ \E r \in Requests :
        /\ req' = [req EXCEPT ![t] = r]
        /\ pc' = [pc EXCEPT ![t] = CASE r.kind = "build" -> "b_lock"
                                     [] r.kind = "meta" -> "m_check"
                                     [] OTHER -> "a_check"]
    /\ UNCHANGED <<cvars, lvars, fvars, pvars, uvars, mvars, bvars, auto_build, lock, loc, resp, blog, edits>>

\* what made a thread call build_bundles
Trigger(t) ==
    IF req[t].kind = "all" THEN "auto"
    ELSE IF req[t].refresh THEN "refresh" ELSE "plain"

\* build_bundles is entered: ensure_dir, both discovery passes and the
\* packing loop (llm_server.py 240-313), all in memory
BbPack(t) ==
    /\ \E walk \in WalkOrders(tree) :
        LET pk == Packed(tree, walk, chunk_bytes, max_single_file_bytes)
            gen == Len(blog) + 1
        IN  loc' = [loc EXCEPT ![t] = [parts |-> pk.parts, gen |-> gen, i |-> 1,
                        meta |-> Meta(pk, chunk_bytes, max_single_file_bytes, gen)]]
    /\ blog' = Append(blog, Trigger(t))
    /\ pc' = [pc EXCEPT ![t] = "bb_bundle"]

\* /build: take the lock, then build or reuse (llm_server.py 517-519)
BuildLock(t) ==
    /\ pc[t] = "b_lock"
    /\ CanAcquire(t)
    /\ lock' = t
    /\ IF NeedBuild(req[t].refresh, disk)
       THEN BbPack(t)
       ELSE /\ pc' = [pc EXCEPT ![t] = "b_load"]
            /\ UNCHANGED <<loc, blog>>
    /\ UNCHANGED <<cvars, lvars, fvars, pvars, uvars, mvars, bvars, auto_build, req, resp, edits>>

\* /build: json.load of the stored manifest, leave the with block and send
\* it (llm_server.py 527-531); an empty file makes json.load raise, the with
\* statement releases the lock and the exception leaves do_GET
BuildLoad(t) ==
    /\ pc[t] = "b_load"
    /\ lock' = Release(t)
    /\ resp' = [resp EXCEPT ![t] =
                   IF disk.meta.st = "full"
                   THEN [NoResp EXCEPT !.status = 200, !.what = "manifest",
                                       !.fst = "full", !.meta = disk.meta.body]
                   ELSE [NoResp EXCEPT !.what = "dropped", !.fst = disk.meta.st]]
    /\ pc' = [pc EXCEPT ![t] = "done"]
    /\ UNCHANGED <<cvars, lvars, fvars, pvars, uvars, mvars, bvars, auto_build, req, loc, blog, edits>>

\* build_bundles: write one bundle file (llm_server.py 317-322)
BbBundle(t) ==
    /\ pc[t] = "bb_bundle"
    /\ LET i == loc[t].i
           f == BundleFile(loc[t].gen, loc[t].parts[i])
       IN  /\ disk' = [disk EXCEPT !.bundles =
                          IF i <= Len(disk.bundles)
                          THEN [disk.bundles EXCEPT ![i] = f]
                          ELSE Append(disk.bundles, f)]
           /\ loc' = [loc EXCEPT ![t].i = i + 1]
           /\ pc' = [pc EXCEPT ![t] = IF i = Len(loc[t].parts)
                                      THEN "bb_meta_open" ELSE "bb_bundle"]
    /\ UNCHANGED <<cvars, lvars, fvars, pvars, uvars, mvars, tree, chunk_bytes, max_single_file_bytes, last, prev,
                   auto_build, lock, req, resp, blog, edits>>

\* build_bundles: open(meta.json, "w") creates or truncates the file
\* (llm_server.py 337)
BbMetaOpen(t) ==
    /\ pc[t] = "bb_meta_open"
    /\ disk' = [disk EXCEPT !.meta = [st |-> "empty", body |-> NoMeta]]
    /\ pc' = [pc EXCEPT ![t] = "bb_meta_dump"]
    /\ UNCHANGED <<cvars, lvars, fvars, pvars, uvars, mvars, tree, chunk_bytes, max_single_file_bytes, last, prev,
                   auto_build, lock, req, loc, resp, blog, edits>>

\* build_bundles: json.dump and close (llm_server.py 338)
BbMetaDump(t) ==
    /\ pc[t] = "bb_meta_dump"
    /\ disk' = [disk EXCEPT !.meta = [st |-> "full", body |-> loc[t].meta]]
    /\ pc' = [pc EXCEPT ![t] = "bb_index"]
    /\ UNCHANGED <<cvars, lvars, fvars, pvars, uvars, mvars, tree, chunk_bytes, max_single_file_bytes, last, prev,
                   auto_build, lock, req, loc, resp, blog, edits>>

\* build_bundles: write index.txt and return meta (llm_server.py 341-358);
\* the caller leaves its with block, and /build sends the manifest
\* (llm_server.py 529-531)
BbIndex(t) ==
    /\ pc[t] = "bb_index"
    /\ disk' = [disk EXCEPT !.index = [st |-> "full", body |-> Index(loc[t].meta)]]
    /\ lock' = Release(t)
    /\ IF req[t].kind = "build"
       THEN /\ resp' = [resp EXCEPT ![t] =
                           [NoResp EXCEPT !.status = 200, !.what = "manifest",
                                          !.fst = "full", !.meta = loc[t].meta]]
            /\ pc' = [pc EXCEPT ![t] = "done"]
       ELSE /\ pc' = [pc EXCEPT ![t] = "a_serve"]
            /\ UNCHANGED resp
    /\ loc' = [loc EXCEPT ![t] = NoLoc]
    /\ UNCHANGED <<cvars, lvars, fvars, pvars, uvars, mvars, tree, chunk_bytes, max_single_file_bytes, last, prev,
                   auto_build, req, blog, edits>>

\* /meta: the exists test (llm_server.py 534-538)
MetaCheck(t) ==
    /\ pc[t] = "m_check"
    /\ IF disk.meta.st = "absent"
       THEN /\ resp' = [resp EXCEPT ![t] = Text(404)]
            /\ pc' = [pc EXCEPT ![t] = "done"]
       ELSE /\ pc' = [pc EXCEPT ![t] = "m_send"]
            /\ UNCHANGED resp
    /\ UNCHANGED <<cvars, lvars, fvars, pvars, uvars, mvars, bvars, auto_build, lock, req, loc, blog, edits>>

\* /meta: _send_file_fast(meta_path) (llm_server.py 539, 410-426): the
\* bytes the file holds when it is read
MetaSend(t) ==
    /\ pc[t] = "m_send"
    /\ resp' = [resp EXCEPT ![t] =
                   IF disk.meta.st = "absent" THEN Text(404)
                   ELSE [NoResp EXCEPT !.status = 200, !.what = "metafile",
                                       !.fst = disk.meta.st, !.meta = disk.meta.body]]
    /\ pc' = [pc EXCEPT ![t] = "done"]
    /\ UNCHANGED <<cvars, lvars, fvars, pvars, uvars, mvars, bvars, auto_build, lock, req, loc, blog, edits>>

\* /all taking the lock on every request
AutoBuildDue_Always(ab, d) == TRUE

\* auto_build and (not exists(meta_path) or not exists(index_path))
AutoBuildDue(ab, d) == ab /\ Missing(d)

\* /all: the first, unlocked test for missing artifacts (llm_server.py 547)
AllCheck(t) ==
    /\ pc[t] = "a_check"
    /\ pc' = [pc EXCEPT ![t] = IF AutoBuildDue(auto_build, disk) THEN "a_lock" ELSE "a_serve"]
    /\ UNCHANGED <<cvars, lvars, fvars, pvars, uvars, mvars, bvars, auto_build, lock, req, loc, resp, blog, edits>>

\* /all building as soon as it holds the lock, without testing again
AllLock_NoRetest(t) ==
    /\ pc[t] = "a_lock"
    /\ CanAcquire(t)
    /\ lock' = t
    /\ BbPack(t)
    /\ UNCHANGED <<cvars, lvars, fvars, pvars, uvars, mvars, bvars, auto_build, req, resp, edits>>

\* /all: take the lock and test again (llm_server.py 548-556); with
\* nothing missing the with block is left at once
AllLock(t) ==
    /\ pc[t] = "a_lock"
    /\ CanAcquire(t)
    /\ IF Missing(disk)
       THEN /\ lock' = t
            /\ BbPack(t)
       ELSE /\ pc' = [pc EXCEPT ![t] = "a_serve"]
            /\ UNCHANGED <<lock, loc, blog>>
    /\ UNCHANGED <<cvars, lvars, fvars, pvars, uvars, mvars, bvars, auto_build, req, resp, edits>>

\* /all: no cache yet, the index, or a bad part number (llm_server.py 558-575)
AllServe(t) ==
    /\ pc[t] = "a_serve"
    /\ IF Missing(disk)
       THEN /\ resp' = [resp EXCEPT ![t] = Text(200)]
            /\ pc' = [pc EXCEPT ![t] = "done"]
       ELSE IF ~req[t].part.given
       THEN /\ resp' = [resp EXCEPT ![t] =
                           [NoResp EXCEPT !.status = 200, !.what = "indexfile",
                                          !.fst = disk.index.st,
                                          !.gen = disk.index.body.gen]]
            /\ pc' = [pc EXCEPT ![t] = "done"]
       ELSE IF ~req[t].part.isint
       THEN /\ resp' = [resp EXCEPT ![t] = Text(400)]
            /\ pc' = [pc EXCEPT ![t] = "done"]
       ELSE /\ pc' = [pc EXCEPT ![t] = "a_load"]
            /\ UNCHANGED resp
    /\ UNCHANGED <<cvars, lvars, fvars, pvars, uvars, mvars, bvars, auto_build, lock, req, loc, blog, edits>>

\* /all?part=N: json.load(meta.json) and the range test (llm_server.py
\* 577-583); json.load of an empty file raises and the exception leaves do_GET
AllLoad(t) ==
    /\ pc[t] = "a_load"
    /\ IF disk.meta.st # "full"
       THEN /\ resp' = [resp EXCEPT ![t] = [NoResp EXCEPT !.what = "dropped",
                                                          !.fst = disk.meta.st]]
            /\ pc' = [pc EXCEPT ![t] = "done"]
            /\ UNCHANGED loc
       ELSE IF req[t].part.n < 1 \/ req[t].part.n > Len(disk.meta.body.bundle_files)
       THEN /\ resp' = [resp EXCEPT ![t] = Text(404)]
            /\ pc' = [pc EXCEPT ![t] = "done"]
            /\ UNCHANGED loc
       ELSE /\ loc' = [loc EXCEPT ![t].meta = disk.meta.body]
            /\ pc' = [pc EXCEPT ![t] = "a_send"]
            /\ UNCHANGED resp
    /\ UNCHANGED <<cvars, lvars, fvars, pvars, uvars, mvars, bvars, auto_build, lock, req, blog, edits>>

\* /all?part=N sending files[part_num], the entry after the one asked for
AllSend_OffByOne(t) ==
    /\ pc[t] = "a_send"
    /\ LET n == req[t].part.n + 1
       IN  resp' = [resp EXCEPT ![t] =
                       IF n > Len(loc[t].meta.bundle_files)
                       THEN [NoResp EXCEPT !.what = "dropped"]
                       ELSE LET name == loc[t].meta.bundle_files[n]
                            IN  [NoResp EXCEPT !.status = 200, !.what = "bundlefile",
                                               !.fst = "full", !.meta = loc[t].meta,
                                               !.gen = disk.bundles[name].gen,
                                               !.pieces = disk.bundles[name].pieces]]
    /\ pc' = [pc EXCEPT ![t] = "done"]
    /\ loc' = [loc EXCEPT ![t] = NoLoc]
    /\ UNCHANGED <<cvars, lvars, fvars, pvars, uvars, mvars, bvars, auto_build, lock, req, blog, edits>>

\* /all?part=N: _send_file_fast(bundle_path) (llm_server.py 585-586)
AllSend(t) ==
    /\ pc[t] = "a_send"
    /\ LET name == loc[t].meta.bundle_files[req[t].part.n]
       IN  resp' = [resp EXCEPT ![t] =
                       IF name > Len(disk.bundles) THEN Text(404)
                       ELSE [NoResp EXCEPT !.status = 200, !.what = "bundlefile",
                                           !.fst = "full", !.meta = loc[t].meta,
                                           !.gen = disk.bundles[name].gen,
                                           !.pieces = disk.bundles[name].pieces]]
    /\ pc' = [pc EXCEPT ![t] = "done"]
    /\ loc' = [loc EXCEPT ![t] = NoLoc]
    /\ UNCHANGED <<cvars, lvars, fvars, pvars, uvars, mvars, bvars, auto_build, lock, req, blog, edits>>

\* somebody adds a source file of MaxSize bytes after the last one, or
\* removes the last one.  Only the discovery passes of build_bundles read the
\* tree: a change made while a build is writing its files is the same as one
\* made right after it.
ChangeTree ==
    /\ edits < MaxEdits
    /\ lock = 0
    /\ \E p \in Paths :
        /\ \A q \in Paths : q < p => tree[q].kind # "absent"
        /\ \A q \in Paths : q > p => tree[q].kind = "absent"
        /\ tree' = [tree EXCEPT ![p] =
                       IF tree[p].kind = "absent"
                       THEN [kind |-> "text", size |-> MaxSize]
                       ELSE [kind |-> "absent", size |-> 0]]
    /\ edits' = edits + 1
    /\ UNCHANGED <<cvars, lvars, fvars, pvars, uvars, mvars, chunk_bytes, max_single_file_bytes, disk, last, prev,
                   auto_build, lock, pc, req, loc, resp, blog>>

\* The server starts serving one text file of MaxSize bytes, with no cache
\* or, started with --warmup, after main has run build_bundles once
\* (llm_server.py 618-626).
InitServer ==
    /\ CacheIdle
    /\ MultiIdle
    /\ PumpIdle
    /\ UtilIdle
    /\ LauncherIdle
    /\ FileIdle
    /\ tree = [p \in Paths |-> IF p = 1 THEN [kind |-> "text", size |-> MaxSize]
                                        ELSE [kind |-> "absent", size |-> 0]]
    /\ chunk_bytes = MaxChunk
    /\ max_single_file_bytes = MaxSize
    /\ \/ disk = NoDisk /\ blog = <<>>
       \/ /\ \E walk \in WalkOrders(tree) :
                disk = AfterBuild(NoDisk, Packed(tree, walk, chunk_bytes,
                                                 max_single_file_bytes),
                                  chunk_bytes, max_single_file_bytes, 1)
          /\ blog = <<"warmup">>
    /\ last = NoBuild
    /\ prev = NoBuild
    /\ auto_build \in BOOLEAN
    /\ lock = 0
    /\ pc = [t \in Threads |-> "idle"]
    /\ req = [t \in Threads |-> NoReq]
    /\ loc = [t \in Threads |-> NoLoc]
    /\ resp = [t \in Threads |-> NoResp]
    /\ edits = 0

NextServer ==
    \/ \E t \in Threads :
        \/ Receive(t)
        \/ BuildLock(t)
        \/ BuildLoad(t)
        \/ BbBundle(t)
        \/ BbMetaOpen(t)
        \/ BbMetaDump(t)
        \/ BbIndex(t)
        \/ MetaCheck(t)
        \/ MetaSend(t)
        \/ AllCheck(t)
        \/ AllLock(t)
        \/ AllServe(t)
        \/ AllLoad(t)
        \/ AllSend(t)
    \/ ChangeTree

SpecServer == InitServer /\ [][NextServer]_vars

\* ------------------------------------------------------------- /tree, /file
\* /tree (llm_server.py 463-475): the listing of iter_repo_files, in the
\* order of the walk
TreeServe(t) ==
    /\ pc[t] = "t_walk"
    /\ \E walk \in WalkOrders(tree) :
        resp' = [resp EXCEPT ![t] =
                    [NoResp EXCEPT !.status = 200, !.what = "tree",
                                   !.pieces = iter_repo_files(tree, walk)]]
    /\ pc' = [pc EXCEPT ![t] = "done"]
    /\ UNCHANGED <<cvars, lvars, fvars, pvars, uvars, mvars, bvars, auto_build, lock, req, loc, blog, edits>>

\* is_ignored_file(name) or is_ignored_ext(ext) or looks_binary(full), on the
\* entry a /file path inside the root names (llm_server.py 494-496)
FileBlocked(t, p) ==
    t[p].kind \in {"ignored", "ignored_name", "ignored_ext"} \/ looks_binary(t, p)

\* /file for a path inside the root (llm_server.py 490-512): 404 when it is
\* not a file, 403 when the name, extension or content is blocked, else the
\* 200 header and the content, or "(read error)" in its place when
\* safe_read_text raises
FileAnswer(tr, p) ==
    IF tr[p].kind = "absent" THEN Text(404)
    ELSE IF FileBlocked(tr, p) THEN Text(403)
    ELSE IF tr[p].kind = "unreadable"
    THEN [NoResp EXCEPT !.status = 200, !.what = "read error"]
    ELSE [NoResp EXCEPT !.status = 200, !.what = "filecontent", !.pieces = <<p>>]

FileServe(t) ==
    /\ pc[t] = "f_serve"
    /\ resp' = [resp EXCEPT ![t] = FileAnswer(tree, req[t].path)]
    /\ pc' = [pc EXCEPT ![t] = "done"]
    /\ UNCHANGED <<cvars, lvars, fvars, pvars, uvars, mvars, bvars, auto_build, lock, req, loc, blog, edits>>

\* ------------------------------------------------------------- SpecReaders
\* The server with a cache, serving /build next to the endpoints that read:
\* /tree, /file and /all?part=1.
ReadRequests ==
    [kind : {"build"}, refresh : BOOLEAN, part : {NoPart}, path : {0}]
    \cup [kind : {"tree"}, refresh : {FALSE}, part : {NoPart}, path : {0}]
    \cup [kind : {"file"}, refresh : {FALSE}, part : {NoPart}, path : {1}]
    \cup [kind : {"all"}, refresh : {FALSE},
          part : {[given |-> TRUE, isint |-> TRUE, n |-> 1]}, path : {0}]

ReceiveRead(t) ==
    /\ pc[t] = "idle"
    /\ \A u \in Threads : u < t => pc[u] # "idle"
    /\ \E r \in ReadRequests :
        /\ req' = [req EXCEPT ![t] = r]
        /\ pc' = [pc EXCEPT ![t] = CASE r.kind = "build" -> "b_lock"
                                     [] r.kind = "tree" -> "t_walk"
                                     [] r.kind = "file" -> "f_serve"
                                     [] OTHER -> "a_check"]
    /\ UNCHANGED <<cvars, lvars, fvars, pvars, uvars, mvars, bvars, auto_build, lock, loc, resp, blog, edits>>

InitReaders ==
    /\ CacheIdle
    /\ MultiIdle
    /\ PumpIdle
    /\ UtilIdle
    /\ LauncherIdle
    /\ FileIdle
    /\ tree = [p \in Paths |-> IF p = 1 THEN [kind |-> "text", size |-> MaxSize]
                                        ELSE [kind |-> "absent", size |-> 0]]
    /\ chunk_bytes = MaxChunk
    /\ max_single_file_bytes = MaxSize
    /\ \E walk \in WalkOrders(tree) :
        disk = AfterBuild(NoDisk, Packed(tree, walk, chunk_bytes, max_single_file_bytes),
                          chunk_bytes, max_single_file_bytes, 1)
    /\ blog = <<"warmup">>
    /\ last = NoBuild
    /\ prev = NoBuild
    /\ auto_build \in BOOLEAN
    /\ lock = 0
    /\ pc = [t \in Threads |-> "idle"]
    /\ req = [t \in Threads |-> NoReq]
    /\ loc = [t \in Threads |-> NoLoc]
    /\ resp = [t \in Threads |-> NoResp]
    /\ edits = 0

NextReaders ==
    \E t \in Threads :
        \/ ReceiveRead(t)
        \/ BuildLock(t)
        \/ BuildLoad(t)
        \/ BbBundle(t)
        \/ BbMetaOpen(t)
        \/ BbMetaDump(t)
        \/ BbIndex(t)
        \/ TreeServe(t)
        \/ FileServe(t)
        \/ AllCheck(t)
        \/ AllServe(t)
        \/ AllLoad(t)
        \/ AllSend(t)

SpecReaders == InitReaders /\ [][NextReaders]_vars

\* ------------------------------------------------------------- SpecHandlers
\* One request at a time, of every kind the handlers tell apart, on a root
\* whose first entry is of any kind and whose second is missing or a text
\* file, and on a cache directory that is empty,
\* built, or built with a meta.json that cannot be parsed (left empty by a
\* build that was stopped between open and json.dump).
HandlerRecs ==
    [kind : {"absent", "in_ignored_dir", "ignored_name", "ignored_ext", "symlink",
             "binary", "unreadable"}, size : {0}]
        \cup [kind : {"text"}, size : {MaxSize}]

\* ?part= : missing, not an integer, or an integer from -1 up to past any
\* bundle count
PartValues ==
    {NoPart, [given |-> TRUE, isint |-> FALSE, n |-> 0]}
        \cup [given : {TRUE}, isint : {TRUE}, n : (-1)..(MaxFiles + 2)]

HandlerRequests ==
    [kind : {"build"}, refresh : BOOLEAN, part : {NoPart}, path : {0}]
    \cup [kind : {"meta", "tree"}, refresh : {FALSE}, part : {NoPart}, path : {0}]
    \cup [kind : {"all"}, refresh : {FALSE}, part : PartValues, path : {0}]
    \cup [kind : {"file"}, refresh : {FALSE}, part : {NoPart}, path : Paths]

ReceiveOne ==
    /\ pc[1] = "idle"
    /\ \E r \in HandlerRequests :
        /\ req' = [req EXCEPT ![1] = r]
        /\ pc' = [pc EXCEPT ![1] = CASE r.kind = "build" -> "b_lock"
                                     [] r.kind = "meta" -> "m_check"
                                     [] r.kind = "tree" -> "t_walk"
                                     [] r.kind = "file" -> "f_serve"
                                     [] OTHER -> "a_check"]
    /\ UNCHANGED <<cvars, lvars, fvars, pvars, uvars, mvars, bvars, auto_build, lock, loc, resp, blog, edits>>

\* build_bundles raises before it has written meta.json (OSError from
\* os.makedirs in ensure_dir, or from open or write of a bundle file): the
\* with statement releases the lock and the exception leaves do_GET, which
\* has no handler for it
BbFail(t) ==
    /\ pc[t] = "bb_bundle"
    /\ lock' = Release(t)
    /\ resp' = [resp EXCEPT ![t] = [NoResp EXCEPT !.what = "dropped"]]
    /\ pc' = [pc EXCEPT ![t] = "done"]
    /\ loc' = [loc EXCEPT ![t] = NoLoc]
    /\ UNCHANGED <<cvars, lvars, fvars, pvars, uvars, mvars, bvars, auto_build, req, blog, edits>>

InitHandlers ==
    /\ CacheIdle
    /\ MultiIdle
    /\ PumpIdle
    /\ UtilIdle
    /\ LauncherIdle
    /\ FileIdle
    /\ \E r \in HandlerRecs, r2 \in {[kind |-> "absent", size |-> 0],
                                     [kind |-> "text", size |-> MaxSize]} :
        tree = [p \in Paths |-> IF p = 1 THEN r
                                ELSE IF p = 2 THEN r2
                                ELSE [kind |-> "absent", size |-> 0]]
    /\ chunk_bytes = MaxChunk
    /\ max_single_file_bytes = MaxSize
    /\ \E walk \in WalkOrders(tree) :
        LET built == AfterBuild(NoDisk, Packed(tree, walk, chunk_bytes,
                                               max_single_file_bytes),
                                chunk_bytes, max_single_file_bytes, 1)
        IN  \/ disk = NoDisk /\ blog = <<>>
            \/ disk = built /\ blog = <<"warmup">>
            \/ /\ disk = [built EXCEPT !.meta = [st |-> "empty", body |-> NoMeta]]
               /\ blog = <<"warmup">>
    /\ last = NoBuild
    /\ prev = NoBuild
    /\ auto_build \in BOOLEAN
    /\ lock = 0
    /\ pc = [t \in Threads |-> "idle"]
    /\ req = [t \in Threads |-> NoReq]
    /\ loc = [t \in Threads |-> NoLoc]
    /\ resp = [t \in Threads |-> NoResp]
    /\ edits = 0

NextHandlers ==
    \/ ReceiveOne
    \/ \E t \in Threads :
        \/ BuildLock(t)
        \/ BuildLoad(t)
        \/ BbBundle(t)
        \/ BbFail(t)
        \/ BbMetaOpen(t)
        \/ BbMetaDump(t)
        \/ BbIndex(t)
        \/ MetaCheck(t)
        \/ MetaSend(t)
        \/ AllCheck(t)
        \/ AllLock(t)
        \/ AllServe(t)
        \/ AllLoad(t)
        \/ AllSend(t)
        \/ TreeServe(t)
        \/ FileServe(t)

SpecHandlers == InitHandlers /\ [][NextHandlers]_vars

\* ------------------------------------------------------------- SpecMulti
\* llm_multi_server.py: the repositories of one server, each RepoSpec with
\* the lock main gave it, and the two handlers that build: /r/<repo>/build
\* and /r/<repo>/all with --auto-build.  A run of build_bundles is one
\* stretch between taking and releasing the repository's lock.
MultiRequests == [repo : Repos, kind : {"build"}, refresh : BOOLEAN]
                     \cup [repo : Repos, kind : {"all"}, refresh : {FALSE}]

NoMultiReq == [repo |-> 0, kind |-> "none", refresh |-> FALSE]

\* one threading.Lock for the whole server
LockOf_Shared(r) == 1

\* lock=threading.Lock() in the RepoSpec of each repository
\* (llm_multi_server.py 340-349)
LockOf(r) == r

MultiReceive(t) ==
    /\ mpc[t] = "idle"
    /\ \A u \in Threads : u < t => mpc[u] # "idle"
    /\ \E r \in MultiRequests :
        /\ mreq' = [mreq EXCEPT ![t] = r]
        /\ mpc' = [mpc EXCEPT ![t] =
                      IF r.kind = "build" \/ (auto_build /\ ~cached[r.repo])
                      THEN "lock" ELSE "done"]
    /\ UNCHANGED <<cvars, bvars, svars, lvars, fvars, pvars, uvars, repo_lock, cached>>

\* with repo.lock: build_bundles is called, or the with block is left at
\* once (llm_multi_server.py 210-219, 240-248)
MultiAcquire(t) ==
    /\ mpc[t] = "lock"
    /\ repo_lock[LockOf(mreq[t].repo)] = 0
    /\ IF (mreq[t].kind = "build" /\ mreq[t].refresh) \/ ~cached[mreq[t].repo]
       THEN /\ repo_lock' = [repo_lock EXCEPT ![LockOf(mreq[t].repo)] = t]
            /\ mpc' = [mpc EXCEPT ![t] = "build"]
       ELSE /\ mpc' = [mpc EXCEPT ![t] = "done"]
            /\ UNCHANGED repo_lock
    /\ UNCHANGED <<cvars, bvars, svars, lvars, fvars, pvars, uvars, cached, mreq>>

\* build_bundles returns and the with block is left
MultiBuilt(t) ==
    /\ mpc[t] = "build"
    /\ cached' = [cached EXCEPT ![mreq[t].repo] = TRUE]
    /\ repo_lock' = [repo_lock EXCEPT ![LockOf(mreq[t].repo)] = 0]
    /\ mpc' = [mpc EXCEPT ![t] = "done"]
    /\ UNCHANGED <<cvars, bvars, svars, lvars, fvars, pvars, uvars, mreq>>

InitMulti ==
    /\ CacheIdle
    /\ BuilderIdle
    /\ LauncherIdle
    /\ FileIdle
    /\ PumpIdle
    /\ UtilIdle
    /\ auto_build \in BOOLEAN
    /\ lock = 0
    /\ pc = [t \in Threads |-> "idle"]
    /\ req = [t \in Threads |-> NoReq]
    /\ loc = [t \in Threads |-> NoLoc]
    /\ resp = [t \in Threads |-> NoResp]
    /\ blog = <<>>
    /\ edits = 0
    /\ repo_lock = [r \in Repos |-> 0]
    /\ cached \in [Repos -> BOOLEAN]
    /\ mpc = [t \in Threads |-> "idle"]
    /\ mreq = [t \in Threads |-> NoMultiReq]

NextMulti ==
    \E t \in Threads :
        \/ MultiReceive(t)
        \/ MultiAcquire(t)
        \/ MultiBuilt(t)

SpecMulti == InitMulti /\ [][NextMulti]_vars

\* ------------------------------------------------------------- SpecBuild
\* build_bundles as a function of the tree and of the order the directory
\* walk returns it in: the tree and the parameters are drawn at the start,
\* every step is one whole run of build_bundles.
MaxBuilds == 2

InitBuild ==
    /\ CacheIdle
    /\ MultiIdle
    /\ PumpIdle
    /\ UtilIdle
    /\ ServerIdle
    /\ LauncherIdle
    /\ FileIdle
    /\ tree \in Trees
    /\ chunk_bytes \in MinChunk..MaxChunk
    /\ max_single_file_bytes \in {MaxSize - 1, MaxSize}
    /\ disk = NoDisk
    /\ last = NoBuild
    /\ prev = NoBuild

Build ==
    /\ last.gen < MaxBuilds
    /\ \E walk \in WalkOrders(tree) :
        LET pk == Packed(tree, walk, chunk_bytes, max_single_file_bytes)
            gen == last.gen + 1
        IN  /\ disk' = AfterBuild(disk, pk, chunk_bytes, max_single_file_bytes, gen)
            /\ last' = [gen |-> gen, parts |-> pk.parts,
                        files_included |-> pk.files_included]
            /\ prev' = last
    /\ UNCHANGED <<cvars, lvars, fvars, pvars, uvars, mvars, tree, chunk_bytes, max_single_file_bytes>>
    /\ UNCHANGED <<cvars, svars, lvars, fvars, pvars, uvars, mvars>>

NextBuild == Build

SpecBuild == InitBuild /\ [][NextBuild]_vars

\* ------------------------------------------------------------- launchers
\* main of start_quick_tunnel.py, start_multi_repo_tunnel.py and
\* start_multi_tunnel.py (started with one root): one server child, one
\* tunnel client child, the pump thread that reads the client's output, and
\* the four phases of main: local health, URL wait, public check, monitoring.
MaxLines == 2
MaxTicks == 2

Launchers == {"quick", "multi_repo", "multi"}
Children == {"server_proc", "cf_proc"}

\* the order of the terminate() calls: the tunnel client, then the server
terminate_order(term) ==
    SelectSeq(<<"cf_proc", "server_proc">>, LAMBDA c : c \in term)

\* the terminate() calls without try/except: the first that raises is the last
Teardown_NoTry(term, raising) ==
    LET order == terminate_order(term)
        stop == {i \in 1..Len(order) : order[i] \in raising}
        n == IF stop = {} THEN Len(order) ELSE Min(stop)
    IN  [i \in 1..n |-> [child |-> order[i], raised |-> order[i] \in raising]]

\* try: cf_proc.terminate() except Exception: pass, then the same for
\* server_proc: every call is made, whichever of them raises
Teardown(term, raising) ==
    LET order == terminate_order(term)
    IN  [i \in 1..Len(order) |-> [child |-> order[i], raised |-> order[i] \in raising]]

\* the launcher's process ends with status code after calling terminate()
\* on the children in term
Exit(code, term) ==
    /\ lpc' = "exited"
    /\ exit_code' = code
    /\ \E raising \in SUBSET term :
        /\ term_log' = term_log \o Teardown(term, raising)
        /\ terminated' = terminated \cup {term_log'[i].child : i \in DOMAIN term_log'}

\* the checks before anything is spawned pass: --root is a directory (one
\* of the --root arguments in start_multi_tunnel), the server script exists,
\* a port is found
ConfigOk ==
    /\ lpc = "config"
    /\ lpc' = "start"
    /\ UNCHANGED <<cvars, bvars, svars, fvars, pvars, uvars, mvars, launcher, public_check, server_proc,
                   cf_proc, terminated, term_log, pipe, err_q, url_q, public_url, fail_line,
                   wait_end, ticks, exit_code, emitted>>

\* one of them fails: [FATAL] and sys.exit(2)
ConfigFatal ==
    /\ lpc = "config"
    /\ Exit(2, {})
    /\ UNCHANGED <<cvars, bvars, svars, fvars, pvars, uvars, mvars, launcher, public_check, server_proc,
                   cf_proc, pipe, err_q, url_q, public_url, fail_line, wait_end, ticks,
                   emitted>>

\* server_proc = subprocess.Popen(server_cmd, ..) and its pump thread
StartServer ==
    /\ lpc = "start"
    /\ server_proc' = "running"
    /\ lpc' = "local_health"
    /\ UNCHANGED <<cvars, bvars, svars, fvars, pvars, uvars, mvars, launcher, public_check, cf_proc, terminated, term_log,
                   pipe, err_q, url_q, public_url, fail_line, wait_end, ticks,
                   exit_code, emitted>>

\* the server child ends by itself
ServerExit ==
    /\ lpc # "exited"
    /\ server_proc = "running"
    /\ server_proc' = "exited"
    /\ UNCHANGED <<cvars, bvars, svars, fvars, pvars, uvars, mvars, launcher, public_check, lpc, cf_proc,
                   terminated, term_log, pipe, err_q, url_q, public_url, fail_line, wait_end,
                   ticks, exit_code, emitted>>

\* wait_http_ok(local /health) answers within 25 s
LocalHealthOk ==
    /\ lpc = "local_health"
    /\ server_proc = "running"
    /\ lpc' = "start_cf"
    /\ UNCHANGED <<cvars, bvars, svars, fvars, pvars, uvars, mvars, launcher, public_check, server_proc, cf_proc,
                   terminated, term_log, pipe, err_q, url_q, public_url, fail_line, wait_end,
                   ticks, exit_code, emitted>>

\* wait_http_ok(local /health) gives up: start_quick_tunnel terminates the
\* server and exits, the other two call sys.exit(3) at once
LocalHealthTimeout ==
    /\ lpc = "local_health"
    /\ Exit(3, IF launcher = "quick" THEN {"server_proc"} ELSE {})
    /\ UNCHANGED <<cvars, bvars, svars, fvars, pvars, uvars, mvars, launcher, public_check, server_proc, cf_proc,
                   pipe, err_q, url_q, public_url, fail_line, wait_end, ticks, emitted>>

\* cf_proc = subprocess.Popen(cf_cmd, ..) and its pump thread
StartCf ==
    /\ lpc = "start_cf"
    /\ cf_proc' = "running"
    /\ lpc' = "w_head"
    /\ UNCHANGED <<cvars, bvars, svars, fvars, pvars, uvars, mvars, launcher, public_check, server_proc,
                   terminated, term_log, pipe, err_q, url_q, public_url, fail_line, wait_end,
                   ticks, exit_code, emitted>>

\* Popen raises FileNotFoundError: start_quick_tunnel catches it, the other
\* two let it end main
CfNotFound ==
    /\ lpc = "start_cf"
    /\ IF launcher = "quick" THEN Exit(4, {"server_proc"}) ELSE Exit(1, {})
    /\ UNCHANGED <<cvars, bvars, svars, fvars, pvars, uvars, mvars, launcher, public_check, server_proc, cf_proc,
                   pipe, err_q, url_q, public_url, fail_line, wait_end, ticks, emitted>>

CfLines == {i \in DOMAIN emitted : emitted[i] # "exit"}

\* the tunnel client prints a line: one with a valid trycloudflare URL or
\* one that says "failed to request quick tunnel"
CfEmit ==
    /\ lpc # "exited"
    /\ cf_proc = "running"
    /\ Cardinality(CfLines) < MaxLines
    /\ \E line \in {"url", "fail"} :
        /\ pipe' = Append(pipe, line)
        /\ emitted' = Append(emitted, line)
    /\ UNCHANGED <<cvars, bvars, svars, fvars, pvars, uvars, mvars, launcher, public_check, lpc, server_proc,
                   cf_proc, terminated, term_log, err_q, url_q, public_url, fail_line,
                   wait_end, ticks, exit_code>>

\* the tunnel client ends by itself
CfExit ==
    /\ lpc # "exited"
    /\ cf_proc = "running"
    /\ cf_proc' = "exited"
    /\ emitted' = Append(emitted, "exit")
    /\ UNCHANGED <<cvars, bvars, svars, fvars, pvars, uvars, mvars, launcher, public_check, lpc, server_proc,
                   terminated, term_log, pipe, err_q, url_q, public_url, fail_line, wait_end,
                   ticks, exit_code>>

\* pump / pump_output / pump_process_output: one readline and its queue put
pump ==
    /\ lpc # "exited"
    /\ pipe # <<>>
    /\ pipe' = Tail(pipe)
    /\ err_q' = IF Head(pipe) = "fail" THEN err_q + 1 ELSE err_q
    /\ url_q' = IF Head(pipe) = "url" THEN url_q + 1 ELSE url_q
    /\ UNCHANGED <<cvars, bvars, svars, fvars, pvars, uvars, mvars, launcher, public_check, lpc, server_proc,
                   cf_proc, terminated, term_log, public_url, fail_line, wait_end, ticks,
                   exit_code, emitted>>

\* while time.time() - t0 < 60: the loop goes on, or the 60 s are over
WaitHead ==
    /\ lpc = "w_head"
    /\ \/ /\ ticks < MaxTicks
          /\ lpc' = "w_poll"
          /\ UNCHANGED wait_end
       \/ /\ wait_end' = "timeout"
          /\ lpc' = "after_wait"
    /\ UNCHANGED <<cvars, bvars, svars, fvars, pvars, uvars, mvars, launcher, public_check, server_proc, cf_proc,
                   terminated, term_log, pipe, err_q, url_q, public_url, fail_line, ticks,
                   exit_code, emitted>>

\* if cf_proc.poll() is not None: break
WaitPoll ==
    /\ lpc = "w_poll"
    /\ IF cf_proc = "exited"
       THEN wait_end' = "exit" /\ lpc' = "after_wait"
       ELSE lpc' = "w_err" /\ UNCHANGED wait_end
    /\ UNCHANGED <<cvars, bvars, svars, fvars, pvars, uvars, mvars, launcher, public_check, server_proc, cf_proc,
                   terminated, term_log, pipe, err_q, url_q, public_url, fail_line, ticks,
                   exit_code, emitted>>

\* fail_line = err_q.get_nowait(); break (start_multi_tunnel drops the line)
WaitErr ==
    /\ lpc = "w_err"
    /\ IF err_q > 0
       THEN /\ err_q' = err_q - 1
            /\ fail_line' = (launcher # "multi")
            /\ wait_end' = "fail"
            /\ lpc' = "after_wait"
       ELSE /\ lpc' = "w_url"
            /\ UNCHANGED <<err_q, fail_line, wait_end>>
    /\ UNCHANGED <<cvars, bvars, svars, fvars, pvars, uvars, mvars, launcher, public_check, server_proc, cf_proc,
                   terminated, term_log, pipe, url_q, public_url, ticks, exit_code, emitted>>

\* public_url = url_q.get_nowait(); break, else time.sleep(0.05)
WaitUrl ==
    /\ lpc = "w_url"
    /\ IF url_q > 0
       THEN /\ url_q' = url_q - 1
            /\ public_url' = TRUE
            /\ wait_end' = "url"
            /\ lpc' = "after_wait"
            /\ UNCHANGED ticks
       ELSE /\ ticks' = ticks + 1
            /\ lpc' = "w_head"
            /\ UNCHANGED <<url_q, public_url, wait_end>>
    /\ UNCHANGED <<cvars, bvars, svars, fvars, pvars, uvars, mvars, launcher, public_check, server_proc, cf_proc,
                   terminated, term_log, pipe, err_q, fail_line, exit_code, emitted>>

\* after the loop: if fail_line: .. sys.exit; if not public_url: .. sys.exit.
\* start_quick_tunnel terminates both children first, start_multi_repo_tunnel
\* does not; start_multi_tunnel only warns and goes on without a URL.
AfterWait ==
    /\ lpc = "after_wait"
    /\ IF launcher = "multi"
       THEN /\ lpc' = IF public_url THEN "public_check" ELSE "monitor"
            /\ UNCHANGED <<exit_code, terminated, term_log>>
       ELSE IF fail_line \/ ~public_url
       THEN IF launcher = "quick" THEN Exit(5, Children) ELSE Exit(4, {})
       ELSE /\ lpc' = "public_check"
            /\ UNCHANGED <<exit_code, terminated, term_log>>
    /\ UNCHANGED <<cvars, bvars, svars, fvars, pvars, uvars, mvars, launcher, public_check, server_proc, cf_proc,
                   pipe, err_q, url_q, public_url, fail_line, wait_end, ticks, emitted>>

\* if args.public_check != "off": with off no request is made
PublicCheck ==
    /\ lpc = "public_check"
    /\ lpc' = IF public_check = "off" THEN "monitor" ELSE "public_wait"
    /\ UNCHANGED <<cvars, bvars, svars, fvars, pvars, uvars, mvars, launcher, public_check, server_proc,
                   cf_proc, terminated, term_log, pipe, err_q, url_q, public_url, fail_line,
                   wait_end, ticks, exit_code, emitted>>

\* wait_http_ok(public /health) answers within --wait-public-seconds, or
\* gives up and the [WARN] line is printed
PublicWait ==
    /\ lpc = "public_wait"
    /\ \E ok \in BOOLEAN : lpc' = IF ok THEN "monitor" ELSE "public_warned"
    /\ UNCHANGED <<cvars, bvars, svars, fvars, pvars, uvars, mvars, launcher, public_check, server_proc,
                   cf_proc, terminated, term_log, pipe, err_q, url_q, public_url, fail_line,
                   wait_end, ticks, exit_code, emitted>>

\* the failed check going on to monitoring in every mode
PublicStrict_Ignored ==
    /\ lpc = "public_warned"
    /\ lpc' = "monitor"
    /\ UNCHANGED <<cvars, bvars, svars, fvars, pvars, uvars, mvars, launcher, public_check,
                   server_proc, cf_proc, terminated, term_log, pipe, err_q, url_q,
                   public_url, fail_line, wait_end, ticks, exit_code, emitted>>

\* if args.public_check == "strict": .. sys.exit; start_quick_tunnel
\* terminates both children first
PublicStrict ==
    /\ lpc = "public_warned"
    /\ IF public_check # "strict"
       THEN /\ lpc' = "monitor"
            /\ UNCHANGED <<exit_code, terminated, term_log>>
       ELSE IF launcher = "quick" THEN Exit(6, Children)
       ELSE IF launcher = "multi_repo" THEN Exit(5, {})
       ELSE Exit(6, {})
    /\ UNCHANGED <<cvars, bvars, svars, fvars, pvars, uvars, mvars, launcher, public_check, server_proc,
                   cf_proc, pipe, err_q, url_q, public_url, fail_line, wait_end, ticks,
                   emitted>>

\* the monitoring loop ending without its finally clause
Monitor_NoTeardown ==
    /\ lpc = "monitor"
    /\ server_proc = "exited" \/ cf_proc = "exited"
    /\ Exit(0, {})
    /\ UNCHANGED <<cvars, bvars, svars, fvars, pvars, uvars, mvars, launcher, public_check, server_proc,
                   cf_proc, pipe, err_q, url_q, public_url, fail_line, wait_end, ticks,
                   emitted>>

\* the monitoring loop finds a child gone and its finally clause runs
Monitor ==
    /\ lpc = "monitor"
    /\ server_proc = "exited" \/ cf_proc = "exited"
    /\ Exit(0, Children)
    /\ UNCHANGED <<cvars, bvars, svars, fvars, pvars, uvars, mvars, launcher, public_check, server_proc, cf_proc,
                   pipe, err_q, url_q, public_url, fail_line, wait_end, ticks, emitted>>

\* Ctrl+C: KeyboardInterrupt is raised in main.  Only the monitoring loop
\* is inside try/except KeyboardInterrupt/finally; before it the exception
\* ends main.
Interrupt ==
    /\ lpc \notin {"config", "start", "exited"}
    /\ IF lpc = "monitor" THEN Exit(0, Children) ELSE Exit(130, {})
    /\ UNCHANGED <<cvars, bvars, svars, fvars, pvars, uvars, mvars, launcher, public_check, server_proc, cf_proc,
                   pipe, err_q, url_q, public_url, fail_line, wait_end, ticks, emitted>>

InitLauncher ==
    /\ CacheIdle
    /\ MultiIdle
    /\ PumpIdle
    /\ UtilIdle
    /\ BuilderIdle
    /\ ServerIdle
    /\ FileIdle
    /\ launcher \in Launchers
    /\ public_check \in {"off", "warn", "strict"}
    /\ lpc = "config"
    /\ server_proc = "none"
    /\ cf_proc = "none"
    /\ terminated = {}
    /\ term_log = <<>>
    /\ pipe = <<>>
    /\ err_q = 0
    /\ url_q = 0
    /\ public_url = FALSE
    /\ fail_line = FALSE
    /\ wait_end = "none"
    /\ ticks = 0
    /\ exit_code = 0
    /\ emitted = <<>>

NextLauncher ==
    \/ ConfigOk
    \/ ConfigFatal
    \/ StartServer
    \/ ServerExit
    \/ LocalHealthOk
    \/ LocalHealthTimeout
    \/ StartCf
    \/ CfNotFound
    \/ CfEmit
    \/ CfExit
    \/ pump
    \/ WaitHead
    \/ WaitPoll
    \/ WaitErr
    \/ WaitUrl
    \/ AfterWait
    \/ PublicCheck
    \/ PublicWait
    \/ PublicStrict
    \/ Monitor
    \/ Interrupt

SpecLauncher == InitLauncher /\ [][NextLauncher]_vars

\* the monitoring loop wakes up every second (time.sleep(1)) and polls both
\* children, so a child that is gone is found
SpecLauncherLive == SpecLauncher /\ WF_vars(Monitor)

\* ------------------------------------------------------------- output pump
\* pump / pump_output / pump_process_output on the tunnel client's stdout.
\* A line is a sequence of tokens, each standing for its text; the line is
\* their concatenation.
MaxTok == 4

Tokens == {"https://", "brave-otter-quick-tunnel", "api", "API", "-", ".",
           ".example", ".trycloudflare.com", " ", "failed to request quick tunnel"}

\* tokens made of characters of [a-z0-9-] only, letters in either case (re.I)
LabelTokens == {"brave-otter-quick-tunnel", "api", "API", "-"}

\* tokens whose first character is a word character (\w)
WordStart == {"https://", "brave-otter-quick-tunnel", "api", "API",
              "failed to request quick tunnel"}

Lines == UNION {[1..n -> Tokens] : n \in 0..MaxTok}

\* the end of the run of [a-z0-9-] characters that starts at token i
RECURSIVE RunEnd(_, _)
RunEnd(line, i) ==
    IF i <= Len(line) /\ line[i] \in LabelTokens THEN RunEnd(line, i + 1) ELSE i

\* TRY_HOST_RE matches at token i: "https://", one or more characters of
\* [a-z0-9-], ".trycloudflare.com" and a word boundary
MatchAt(line, i) ==
    LET j == RunEnd(line, i + 1)
    IN  /\ line[i] = "https://"
        /\ j > i + 1
        /\ j <= Len(line)
        /\ line[j] = ".trycloudflare.com"
        /\ (j = Len(line) \/ line[j + 1] \notin WordStart)

\* TRY_HOST_RE.search(line).group(1): the host of the leftmost match, <<>>
\* when search returns None
TRY_HOST_RE(line) ==
    LET starts == {i \in 1..Len(line) : MatchAt(line, i)}
    IN  IF starts = {} THEN <<>>
        ELSE LET i == Min(starts)
             IN  SubSeq(line, i + 1, RunEnd(line, i + 1) - 1)

\* QUICK_TUNNEL_FAIL_RE.search(line)
QUICK_TUNNEL_FAIL_RE(line) ==
    \E i \in 1..Len(line) : line[i] = "failed to request quick tunnel"

\* str.strip
RECURSIVE strip(_)
strip(line) ==
    IF line = <<>> THEN line
    ELSE IF Head(line) = " " THEN strip(Tail(line))
    ELSE IF line[Len(line)] = " " THEN strip(SubSeq(line, 1, Len(line) - 1))
    ELSE line

\* str.lower
Lower(host) == [i \in 1..Len(host) |-> IF host[i] = "API" THEN "api" ELSE host[i]]

\* '-' in h
HasDash(host) == \E i \in 1..Len(host) : host[i] \in {"brave-otter-quick-tunnel", "-"}

\* the host test without the '-' rule
is_valid_quick_host_NoDash(host) == Lower(host) # <<"api">>

\* is_valid_quick_host / is_valid_quick_tunnel_host
is_valid_quick_host(host) ==
    LET h == strip(Lower(host))
    IN  IF h = <<"api">> THEN FALSE
        ELSE IF ~HasDash(h) THEN FALSE
        ELSE TRUE

\* one turn of the pump's loop: readline, the failure test and its put, the
\* URL search, the host test and its put
PumpLine ==
    /\ ppc = "reading"
    /\ nread < Len(cf_out)
    /\ LET line == cf_out[nread + 1]
           host == TRY_HOST_RE(line)
       IN  /\ err_queue' = IF QUICK_TUNNEL_FAIL_RE(line)
                           THEN Append(err_queue, strip(line)) ELSE err_queue
           /\ matched' = host
           /\ url_queue' = IF host # <<>> /\ is_valid_quick_host(host)
                           THEN Append(url_queue, host) ELSE url_queue
    /\ nread' = nread + 1
    /\ UNCHANGED <<cvars, bvars, svars, lvars, fvars, mvars, uvars, cf_out, ppc>>

\* readline returns "" at end of file and the loop ends
PumpEof ==
    /\ ppc = "reading"
    /\ nread = Len(cf_out)
    /\ ppc' = "ended"
    /\ UNCHANGED <<cvars, bvars, svars, lvars, fvars, mvars, uvars, cf_out, nread, matched,
                   url_queue, err_queue>>

InitPump ==
    /\ CacheIdle
    /\ BuilderIdle
    /\ ServerIdle
    /\ LauncherIdle
    /\ FileIdle
    /\ MultiIdle
    /\ UtilIdle
    /\ \E line \in Lines : cf_out = <<line>>
    /\ ppc = "reading"
    /\ nread = 0
    /\ matched = <<>>
    /\ url_queue = <<>>
    /\ err_queue = <<>>

NextPump ==
    \/ PumpLine
    \/ PumpEof

SpecPump == InitPump /\ [][NextPump]_vars

\* ------------------------------------------------------------- /file
\* The path test of /file (llm_server.py 477-488, llm_multi_server.py
\* 170-181).  A string is a sequence of characters.  The request carries the
\* raw value of ?path= as a sequence of tokens: a literal character, a
\* percent escape, a doubly encoded dot, or "+".
MaxLen == 5

RawTokens == {"/", "%5C", ".", "%2E", "%252E", "a", "+"}

RawPaths == UNION {[1..n -> RawTokens] : n \in 0..MaxLen}

\* the served root: /a, or \a on the drive of the working directory
root_dir(fl) == IF fl = "posix" THEN <<"/", "a">> ELSE <<"\\", "a">>

\* os.sep and the characters os.path splits on
Sep(fl) == IF fl = "posix" THEN "/" ELSE "\\"
Seps(fl) == IF fl = "posix" THEN {"/"} ELSE {"/", "\\"}

\* urllib.parse.parse_qs: "+" becomes a space, each %XX becomes one
\* character, once
unquote(tok) ==
    CASE tok = "%5C" -> <<"\\">>
      [] tok = "%2E" -> <<".">>
      [] tok = "%252E" -> <<"%", "2", "E">>
      [] tok = "+" -> <<" ">>
      [] OTHER -> <<tok>>

RECURSIVE parse_qs(_)
parse_qs(raw) ==
    IF raw = <<>> THEN <<>> ELSE unquote(Head(raw)) \o parse_qs(Tail(raw))

RECURSIVE lstrip(_, _)
lstrip(str, chars) ==
    IF str # <<>> /\ Head(str) \in chars THEN lstrip(Tail(str), chars) ELSE str

RECURSIVE rstrip(_, _)
rstrip(str, chars) ==
    IF str # <<>> /\ str[Len(str)] \in chars
    THEN rstrip(SubSeq(str, 1, Len(str) - 1), chars) ELSE str

\* (qs.get("path", [""])[0] or "").strip().lstrip("/\\")
RelOf(raw) == lstrip(rstrip(lstrip(parse_qs(raw), {" "}), {" "}), {"/", "\\"})

\* str.split on the separators: the components, empty ones included
RECURSIVE SplitOn(_, _)
SplitOn(str, seps) ==
    IF str = <<>> THEN << <<>> >>
    ELSE LET rest == SplitOn(Tail(str), seps)
         IN  IF Head(str) \in seps THEN << <<>> >> \o rest
             ELSE << <<Head(str)>> \o Head(rest) >> \o Tail(rest)

RECURSIVE JoinWith(_, _)
JoinWith(comps, sep) ==
    IF comps = <<>> THEN <<>>
    ELSE IF Len(comps) = 1 THEN Head(comps)
    ELSE Head(comps) \o <<sep>> \o JoinWith(Tail(comps), sep)

\* os.path.join(root_dir, rel) for a rel that does not start with a separator
join(root, rel, fl) == root \o <<Sep(fl)>> \o rel

\* the component loop of os.path.normpath for an absolute path
RECURSIVE NormComps(_, _)
NormComps(comps, acc) ==
    IF comps = <<>> THEN acc
    ELSE LET c == Head(comps)
         IN  IF c = <<>> \/ c = <<".">> THEN NormComps(Tail(comps), acc)
             ELSE IF c = <<".", ".">>
             THEN NormComps(Tail(comps),
                            IF acc = <<>> THEN acc ELSE SubSeq(acc, 1, Len(acc) - 1))
             ELSE NormComps(Tail(comps), Append(acc, c))

\* os.path.abspath of an absolute path: normpath
abspath(str, fl) ==
    <<Sep(fl)>> \o JoinWith(NormComps(SplitOn(str, Seps(fl)), <<>>), Sep(fl))

RECURSIVE CommonPrefix(_, _)
CommonPrefix(s1, s2) ==
    IF s1 = <<>> \/ s2 = <<>> \/ Head(s1) # Head(s2) THEN <<>>
    ELSE <<Head(s1)>> \o CommonPrefix(Tail(s1), Tail(s2))

\* os.path.commonprefix: the longest common prefix, character by character
commonprefix(p1, p2, fl) == CommonPrefix(p1, p2)

\* os.path.commonpath([p1, p2]) of two absolute paths: the longest common
\* sequence of components
commonpath(p1, p2, fl) ==
    LET c1 == SelectSeq(SplitOn(p1, Seps(fl)), LAMBDA c : c # <<>> /\ c # <<".">>)
        c2 == SelectSeq(SplitOn(p2, Seps(fl)), LAMBDA c : c # <<>> /\ c # <<".">>)
    IN  <<Sep(fl)>> \o JoinWith(CommonPrefix(c1, c2), Sep(fl))

InitFile ==
    /\ CacheIdle
    /\ MultiIdle
    /\ PumpIdle
    /\ UtilIdle
    /\ BuilderIdle
    /\ ServerIdle
    /\ LauncherIdle
    /\ fpath \in RawPaths
    /\ fsep \in {"posix", "nt"}
    /\ fresp = [status |-> "none", full |-> <<>>]
    /\ fentry = NoEntry

\* do_GET for /file up to os.path.isfile(full): 400, 403 "path escapes
\* root", or the file system is asked about full (404, 403 blocked or 200)
FileRequest ==
    /\ fresp.status = "none"
    /\ LET rel == RelOf(fpath)
           full == abspath(join(root_dir(fsep), rel, fsep), fsep)
           root == abspath(root_dir(fsep), fsep)
       IN  fresp' = IF rel = <<>> THEN [status |-> "400", full |-> <<>>]
                    ELSE IF commonpath(root, full, fsep) # root
                    THEN [status |-> "403 path escapes root", full |-> <<>>]
                    ELSE [status |-> "isfile", full |-> full]
    /\ UNCHANGED <<cvars, bvars, svars, lvars, mvars, pvars, uvars, fpath, fsep, fentry>>

NextFile == FileRequest

SpecFile == InitFile /\ [][NextFile]_vars

\* ------------------------------------------------------------- /file, whole
\* The /file handler from the request line to the status it sends, on a
\* file system that holds any kind of entry at the path asked for.
\* What os.path.isfile, is_ignored_file, is_ignored_ext and looks_binary say
\* about the path: a name can be on the ignore lists whether or not a file
\* of that name exists; looks_binary is asked about existing files only.
Entries ==
    {e \in [isfile : BOOLEAN, name_ignored : BOOLEAN, ext_ignored : BOOLEAN,
            binary : BOOLEAN] : e.binary => e.isfile}

\* the request lines of up to two tokens
ShortPaths == UNION {[1..n -> RawTokens] : n \in 0..2}

\* the ignore test made before the existence test
FileLookup_BlockedFirst ==
    /\ fresp.status = "isfile"
    /\ fresp' = [fresp EXCEPT !.status =
                    IF fentry.name_ignored \/ fentry.ext_ignored \/ fentry.binary
                    THEN "403 blocked"
                    ELSE IF ~fentry.isfile THEN "404"
                    ELSE "200"]
    /\ UNCHANGED <<cvars, bvars, svars, lvars, mvars, pvars, uvars, fpath, fsep, fentry>>

\* if not os.path.isfile(full): 404; if is_ignored_file(name) or
\* is_ignored_ext(ext) or looks_binary(full): 403; else 200 and the content
FileLookup ==
    /\ fresp.status = "isfile"
    /\ fresp' = [fresp EXCEPT !.status =
                    IF ~fentry.isfile THEN "404"
                    ELSE IF fentry.name_ignored \/ fentry.ext_ignored \/ fentry.binary
                    THEN "403 blocked"
                    ELSE "200"]
    /\ UNCHANGED <<cvars, bvars, svars, lvars, mvars, pvars, uvars, fpath, fsep, fentry>>

InitFileOrder ==
    /\ CacheIdle
    /\ MultiIdle
    /\ PumpIdle
    /\ UtilIdle
    /\ BuilderIdle
    /\ ServerIdle
    /\ LauncherIdle
    /\ fpath \in ShortPaths
    /\ fsep \in {"posix", "nt"}
    /\ fresp = [status |-> "none", full |-> <<>>]
    /\ fentry \in Entries

NextFileOrder == FileRequest \/ FileLookup

SpecFileOrder == InitFileOrder /\ [][NextFileOrder]_vars

\* ------------------------------------------------------------- fingerprint
\* fingerprint_file_list called on the lists one set of relative paths can
\* be listed as, alone and the way build_bundles calls it.  Paths are
\* numbered in the order str comparison puts them.
MaxNames == 3
MaxCalls == 2

Names == 1..MaxNames

\* build_bundles handing over the list as the walk found it
rel_paths_sort_Unsorted(rel_paths) == rel_paths

\* rel_paths.sort() (llm_server.py 246)
rel_paths_sort(rel_paths) == Sorted(Range(rel_paths))

\* fp = fingerprint_file_list(rel_paths) on the current list, and next to it
\* what build_bundles computes from the same list
FingerprintCall ==
    /\ Len(fp_calls) < MaxCalls
    /\ fp_calls' = Append(fp_calls,
                          [input |-> fp_paths,
                           digest |-> fingerprint_file_list(fp_paths),
                           built |-> fingerprint_file_list(rel_paths_sort(fp_paths))])
    /\ UNCHANGED <<cvars, bvars, svars, lvars, fvars, mvars, pvars, fp_paths, un_items, un_out,
                   port_busy, port_auto, port_pc, port_p, port_tries,
                   tr_file, tr_limit, tr_block>>

\* the same paths come in another order (os.walk promises none)
Permute ==
    /\ \E q \in Perms(Range(fp_paths)) :
        /\ q # fp_paths
        /\ fp_paths' = q
    /\ UNCHANGED <<cvars, bvars, svars, lvars, fvars, mvars, pvars, fp_calls, un_items, un_out,
                   port_busy, port_auto, port_pc, port_p, port_tries,
                   tr_file, tr_limit, tr_block>>

InitFingerprint ==
    /\ CacheIdle
    /\ BuilderIdle
    /\ ServerIdle
    /\ LauncherIdle
    /\ FileIdle
    /\ MultiIdle
    /\ PumpIdle
    /\ \E S \in SUBSET Names : fp_paths \in Perms(S)
    /\ fp_calls = <<>>
    /\ un_items = <<>>
    /\ un_out = [called |-> FALSE, names |-> <<>>, repos |-> <<>>]
    /\ port_busy = {}
    /\ port_auto = FALSE
    /\ port_pc = "none"
    /\ port_p = 0
    /\ port_tries = 0
    /\ tr_file = <<>>
    /\ tr_limit = 0
    /\ tr_block = NoBlock

NextFingerprint ==
    \/ FingerprintCall
    \/ Permute

SpecFingerprint == InitFingerprint /\ [][NextFingerprint]_vars

\* ------------------------------------------------------------- repository names
\* main of llm_multi_server.py from the parsed --repo arguments to the
\* repos map.  A name is its text cut at the "-<number>" suffixes:
\* <<"a">> is a, <<"a", 2>> is a-2, <<"a", 2, 2>> is a-2-2.
MaxItems == 3

ArgNames == {<<"a">>, <<"a", 2>>, <<"a", 3>>, <<"b">>}

\* the (name, path) pairs of parse_repo_arg; valid is os.path.isdir(root)
Items == UNION {[1..n -> [name : ArgNames, valid : BOOLEAN]] : n \in 0..MaxItems}

\* seen.get(base, 0)
SeenGet(seen, base) == IF base \in DOMAIN seen THEN seen[base] ELSE 0

\* seen[base] = n
SeenSet(seen, base, n) ==
    [b \in DOMAIN seen \cup {base} |-> IF b = base THEN n ELSE seen[b]]

\* uniquify_names: the loop over items with its dictionary seen
RECURSIVE uniquify_loop(_, _, _)
uniquify_loop(items, seen, out) ==
    IF items = <<>> THEN out
    ELSE LET base == Head(items).name
             i == SeenGet(seen, base)
         IN  IF i = 0
             THEN uniquify_loop(Tail(items), SeenSet(seen, base, 1), Append(out, base))
             ELSE uniquify_loop(Tail(items), SeenSet(seen, base, i + 1),
                                Append(out, Append(base, i + 1)))

\* uniquify_names: the names of the pairs returned
uniquify_names(items) == uniquify_loop(items, <<>>, <<>>)

\* repos[name] = RepoSpec(..) for each pair whose root is a directory: the
\* map from name to the argument it stands for, a later one replacing an
\* earlier one of the same name
ReposMap(items, names) ==
    LET keys == {names[i] : i \in {k \in DOMAIN items : items[k].valid}}
    IN  [n \in keys |->
            CHOOSE i \in DOMAIN items :
                /\ items[i].valid /\ names[i] = n
                /\ \A j \in DOMAIN items : (items[j].valid /\ names[j] = n) => j <= i]

NoRepos == [called |-> FALSE, names |-> <<>>, repos |-> <<>>]

\* pairs = uniquify_names(pairs) and the loop that fills repos
Uniquify ==
    /\ ~un_out.called
    /\ LET names == uniquify_names(un_items)
       IN  un_out' = [called |-> TRUE, names |-> names,
                      repos |-> ReposMap(un_items, names)]
    /\ UNCHANGED <<cvars, bvars, svars, lvars, fvars, mvars, pvars, fp_paths, fp_calls, un_items,
                   port_busy, port_auto, port_pc, port_p, port_tries,
                   tr_file, tr_limit, tr_block>>

InitNames ==
    /\ CacheIdle
    /\ BuilderIdle
    /\ ServerIdle
    /\ LauncherIdle
    /\ FileIdle
    /\ MultiIdle
    /\ PumpIdle
    /\ fp_paths = <<>>
    /\ fp_calls = <<>>
    /\ un_items \in Items
    /\ un_out = NoRepos
    /\ port_busy = {}
    /\ port_auto = FALSE
    /\ port_pc = "none"
    /\ port_p = 0
    /\ port_tries = 0
    /\ tr_file = <<>>
    /\ tr_limit = 0
    /\ tr_block = NoBlock

NextNames == Uniquify

SpecNames == InitNames /\ [][NextNames]_vars

\* ------------------------------------------------------------ port selection
\* max_tries of pick_free_port
MaxTries == 3

\* ports, counted from the requested one: 0 is args.port
Ports == 0..(MaxTries + 1)

\* port_is_free: the bind succeeds
port_is_free(p) == p \notin port_busy

\* a candidate loop that skips every other port
NextCandidate_Skip(p) == p + 2

\* p += 1
NextCandidate(p) == p + 1

\* if not port_is_free(args.bind, port): pick_free_port when args.auto_port,
\* else [FATAL] and sys.exit(2)
PortProbe ==
    /\ port_pc = "probe"
    /\ port_pc' = IF port_is_free(0) THEN "done"
                  ELSE IF port_auto THEN "pick" ELSE "fatal"
    /\ UNCHANGED <<cvars, bvars, svars, lvars, fvars, mvars, pvars, fp_paths, fp_calls, un_items,
                   un_out, port_busy, port_auto, port_p, port_tries,
                   tr_file, tr_limit, tr_block>>

\* one round of the loop of pick_free_port; RuntimeError after max_tries
PickStep ==
    /\ port_pc = "pick"
    /\ IF port_tries = MaxTries
       THEN port_pc' = "error" /\ UNCHANGED <<port_p, port_tries>>
       ELSE IF port_is_free(port_p)
       THEN port_pc' = "done" /\ UNCHANGED <<port_p, port_tries>>
       ELSE /\ port_p' = NextCandidate(port_p)
            /\ port_tries' = port_tries + 1
            /\ UNCHANGED port_pc
    /\ UNCHANGED <<cvars, bvars, svars, lvars, fvars, mvars, pvars, fp_paths, fp_calls, un_items,
                   un_out, port_busy, port_auto,
                   tr_file, tr_limit, tr_block>>

\* server_proc = subprocess.Popen(server_cmd) with --port str(port)
SpawnServer ==
    /\ port_pc = "done"
    /\ port_pc' = "spawned"
    /\ server_proc' = "running"
    /\ UNCHANGED <<cvars, bvars, svars, fvars, mvars, pvars, fp_paths, fp_calls, un_items,
                   un_out, port_busy, port_auto, port_p, port_tries,
                   launcher, public_check, lpc, cf_proc, terminated, term_log, pipe,
                   err_q, url_q, public_url, fail_line, wait_end, ticks, exit_code,
                   emitted,
                   tr_file, tr_limit, tr_block>>

InitPort ==
    /\ CacheIdle
    /\ BuilderIdle
    /\ ServerIdle
    /\ LauncherIdle
    /\ FileIdle
    /\ MultiIdle
    /\ PumpIdle
    /\ fp_paths = <<>>
    /\ fp_calls = <<>>
    /\ un_items = <<>>
    /\ un_out = NoRepos
    /\ port_busy \in SUBSET Ports
    /\ port_auto \in BOOLEAN
    /\ port_pc = "probe"
    /\ port_p = 0
    /\ port_tries = 0
    /\ tr_file = <<>>
    /\ tr_limit = 0
    /\ tr_block = NoBlock

NextPort == PortProbe \/ PickStep \/ SpawnServer

SpecPort == InitPort /\ [][NextPort]_vars

\* ---------------------------------------------------------- cache directory
\* Discovery on a root that holds its own cache directory.  A path is the
\* sequence of its components; a directory name given as one string with
\* separators in it, like --cache-dirname sub/cache, is the sequence of its
\* components too, and equals a name os.walk lists only when it has one.

\* IGNORE_DIRS_EXACT after main added args.cache_dirname (llm_server.py 612,
\* llm_multi_server.py 326); of the names in the source's list only the two
\* that occur in the trees below
IGNORE_DIRS_EXACT == {<<"node_modules">>, <<".llm_cache">>, cache_dirname}

\* is_ignored_dir(dirname), dirname one component as os.walk lists it
is_ignored_dir(dirname) == <<dirname>> \in IGNORE_DIRS_EXACT

\* is_ignored_file or is_ignored_ext
IgnoredNames == {".env", "photo.png"}

\* link: "file" when the entry is a symlink, "dir" when its directory is one
\* (os.walk lists such a directory and does not descend into it)
SourceEntries ==
    {[path |-> <<"a.txt">>, link |-> "no"],
     [path |-> <<"sub", "b.txt">>, link |-> "no"],
     [path |-> <<"node_modules", "x.js">>, link |-> "no"],
     [path |-> <<".env">>, link |-> "no"],
     [path |-> <<"l.txt">>, link |-> "file"],
     [path |-> <<"ldir", "c.txt">>, link |-> "dir"]}

CacheDirnames == {<<".llm_cache">>, <<"cache">>, <<"sub", "cache">>}

\* the files of the cache directory after a build of one chunk
CacheArtifacts == {"bundle_0001.txt", "meta.json", "index.txt"}

\* everything below the root
OnDisk ==
    src_files \cup {[path |-> cache_dirname \o <<f>>, link |-> "no"] : f \in cache_files}

\* iter_repo_files yields the entry: no directory above it was pruned or is
\* a symlink, its name and extension pass, and it is no symlink
Yields(e) ==
    /\ \A i \in 1..(Len(e.path) - 1) : ~is_ignored_dir(e.path[i])
    /\ e.link # "dir"
    /\ e.path[Len(e.path)] \notin IgnoredNames
    /\ e.link # "file"

\* one run of build_bundles on the unchanged tree: the bundle holds the
\* header and a block for every file yielded (every source file holding one
\* byte, the bundle of the run before holding what that run wrote)
BuildCache ==
    /\ Len(cache_log) < MaxBuilds
    /\ LET y == {e.path : e \in {f \in OnDisk : Yields(f)}}
           before == IF cache_log = <<>> THEN 0 ELSE cache_log[Len(cache_log)].size
           size == HeaderLen + Cardinality(y) * (BlockHeaderLen + 1)
                       + (IF cache_dirname \o <<"bundle_0001.txt">> \in y
                          THEN before - 1 ELSE 0)
       IN  cache_log' = Append(cache_log, [yielded |-> y, size |-> size])
    /\ cache_files' = CacheArtifacts
    /\ UNCHANGED <<bvars, svars, lvars, fvars, mvars, pvars, uvars, cache_dirname,
                   src_files>>

InitCacheDir ==
    /\ BuilderIdle
    /\ ServerIdle
    /\ LauncherIdle
    /\ FileIdle
    /\ MultiIdle
    /\ PumpIdle
    /\ UtilIdle
    /\ cache_dirname \in CacheDirnames
    /\ src_files \in SUBSET SourceEntries
    /\ cache_files = {}
    /\ cache_log = <<>>

NextCacheDir == BuildCache

SpecCacheDir == InitCacheDir /\ [][NextCacheDir]_vars

\* --------------------------------------------------------------- truncation
\* One file through the size test, safe_read_text and the block encoding of
\* build_bundles (llm_server.py 279-304).  A file is a sequence of
\* characters stored as UTF-8: "a" is one byte, "e'" (e acute) the two bytes
\* C3 A9.  Bytes are named by their hexadecimal value.
MaxChars == 3

Chars == {"a", "e'"}

FileTexts == UNION {[1..n -> Chars] : n \in 0..MaxChars}

\* str.encode("utf-8") of one character; "A~" and "(c)" are the characters
\* latin-1 gives the bytes C3 and A9
EncodeChar(c) ==
    CASE c = "a" -> <<"61">>
      [] c = "e'" -> <<"C3", "A9">>
      [] c = "A~" -> <<"C3", "83">>
      [] OTHER -> <<"C2", "A9">>

RECURSIVE encode(_)
encode(text) == IF text = <<>> THEN <<>> ELSE EncodeChar(Head(text)) \o encode(Tail(text))

\* data.decode("utf-8"): ok is FALSE where UnicodeDecodeError is raised
RECURSIVE decode_utf8(_)
decode_utf8(data) ==
    IF data = <<>> THEN [ok |-> TRUE, text |-> <<>>]
    ELSE IF Head(data) = "61"
    THEN LET r == decode_utf8(Tail(data))
         IN  [ok |-> r.ok, text |-> <<"a">> \o r.text]
    ELSE IF Head(data) = "C3" /\ Len(data) >= 2 /\ data[2] = "A9"
    THEN LET r == decode_utf8(Tail(Tail(data)))
         IN  [ok |-> r.ok, text |-> <<"e'">> \o r.text]
    ELSE [ok |-> FALSE, text |-> <<>>]

\* data.decode("latin-1"): one character for every byte
decode_latin1(data) ==
    [i \in 1..Len(data) |-> CASE data[i] = "61" -> "a"
                              [] data[i] = "C3" -> "A~"
                              [] OTHER -> "(c)"]

\* safe_read_text: f.read() or f.read(max_bytes), then utf-8, utf-8-sig
\* (which fails where utf-8 does, the files having no byte order mark) and
\* latin-1
safe_read_text(raw, limited, max_bytes) ==
    LET data == IF limited /\ max_bytes < Len(raw) THEN SubSeq(raw, 1, max_bytes) ELSE raw
    IN  IF decode_utf8(data).ok THEN decode_utf8(data).text ELSE decode_latin1(data)

\* the size test, the read and the block of one file; content is what
\* follows the block header in block_bytes
WriteBlock ==
    /\ ~tr_block.done
    /\ LET raw == encode(tr_file)
           size == Len(raw)
           truncated == size >= 0 /\ size > tr_limit
           content == safe_read_text(raw, truncated, tr_limit)
       IN  tr_block' = [done |-> TRUE, size |-> size, truncated |-> truncated,
                        content |-> encode(content)]
    /\ UNCHANGED <<cvars, bvars, svars, lvars, fvars, mvars, pvars, fp_paths, fp_calls,
                   un_items, un_out, port_busy, port_auto, port_pc, port_p, port_tries,
                   tr_file, tr_limit>>

InitTruncate ==
    /\ CacheIdle
    /\ BuilderIdle
    /\ ServerIdle
    /\ LauncherIdle
    /\ FileIdle
    /\ MultiIdle
    /\ PumpIdle
    /\ fp_paths = <<>>
    /\ fp_calls = <<>>
    /\ un_items = <<>>
    /\ un_out = NoRepos
    /\ port_busy = {}
    /\ port_auto = FALSE
    /\ port_pc = "none"
    /\ port_p = 0
    /\ port_tries = 0
    /\ tr_file \in FileTexts
    /\ tr_limit \in 0..(2 * MaxChars)
    /\ tr_block = NoBlock

NextTruncate == WriteBlock

SpecTruncate == InitTruncate /\ [][NextTruncate]_vars

\* ------------------------------------------------------------- builder claims
\* the files Discovery yields that pass the binary sniff and can be read
Included(t) == {p \in Paths : t[p].kind = "text"}

\* the chunk artifacts the manifest on disk names, in order
Chunks == [i \in 1..disk.meta.body.bundle_count |->
              disk.bundles[disk.meta.body.bundle_files[i]].pieces]

\* the places <<chunk, position>> of the pieces that belong to file p
PiecesOf(p) ==
    {ij \in (1..Len(Chunks)) \X (1..MaxFiles + 1) :
        ij[2] <= Len(Chunks[ij[1]]) /\ Chunks[ij[1]][ij[2]][1] = p}

TotalBlockBytes ==
    SumSeq([i \in 1..Len(Sorted(Included(tree))) |->
               BlockLen(tree, Sorted(Included(tree))[i], max_single_file_bytes)])

Built == last.gen > 0 /\ disk.meta.st = "full"

NoOversizeBlock ==
    \A p \in Included(tree) : BlockLen(tree, p, max_single_file_bytes) <= chunk_bytes

\* C7 (as stated): when no block exceeds chunk_bytes, a build produces at
\* least ceil(S / chunk_bytes) chunks, S the total block bytes, and never more
\* chunks than files included.
C7_ChunkCountAtMostFiles ==
    (Built /\ NoOversizeBlock) =>
        /\ Len(Chunks) * chunk_bytes >= TotalBlockBytes
        /\ Len(Chunks) <= disk.meta.body.files_included

\* C7 (amended): when no block exceeds chunk_bytes, a build produces at least
\* ceil(S / chunk_bytes) chunks and at most one chunk more than files included
\* (the first chunk may hold the bundle header alone).
C7_ChunkCountBounds ==
    (Built /\ NoOversizeBlock) =>
        /\ Len(Chunks) * chunk_bytes >= TotalBlockBytes
        /\ Len(Chunks) <= disk.meta.body.files_included + 1

\* a build of two files, no block over chunk_bytes, that needed more chunks
\* than ceil(S / chunk_bytes) and as many as the amended bound allows
C7_Witness ==
    /\ Built /\ NoOversizeBlock
    /\ disk.meta.body.files_included = 2
    /\ Len(Chunks) = 3
    /\ (Len(Chunks) - 1) * chunk_bytes >= TotalBlockBytes

\* C8: two builds with the same parameters over the same files produce the
\* same partition into chunks, whatever order the directory walk returned.
C8_SamePartition ==
    (prev.gen > 0 /\ last.gen > 0) => last.parts = prev.parts

\* C9: every included file's block lies whole in exactly one chunk artifact,
\* also when it is larger than chunk_bytes.
C9_BlockNeverSplit ==
    Built =>
        \A p \in Included(tree) :
            /\ \A a \in PiecesOf(p), b \in PiecesOf(p) : a[1] = b[1]
            /\ \E a \in PiecesOf(p) :
                  Chunks[a[1]][a[2]][2] = BlockLen(tree, p, max_single_file_bytes)

\* a build in which a block larger than chunk_bytes met a chunk that already
\* held something
C9_Witness ==
    /\ Built
    /\ Len(Chunks) >= 2
    /\ \E p \in Included(tree) :
          BlockLen(tree, p, max_single_file_bytes) > chunk_bytes

\* C10: after a build every file that Discovery yields, passes the sniff and
\* can be read has exactly one block, no other file has one, and the
\* manifest's files_included is the number of blocks.
C10_BlocksMatchFiles ==
    Built =>
        /\ \A p \in Paths :
              Cardinality(PiecesOf(p)) = IF p \in Included(tree) THEN 1 ELSE 0
        /\ disk.meta.body.files_included =
              Cardinality(UNION {PiecesOf(p) : p \in Paths})

\* a build over a tree with a packed file beside one that Discovery yields
\* and the builder drops (binary or unreadable)
C10_Witness ==
    /\ Built
    /\ Included(tree) # {}
    /\ \E p \in Paths : tree[p].kind \in {"binary", "unreadable"}

\* ---------------------------------------------------------------------
\* Content Server claims (SpecServer)
\* ---------------------------------------------------------------------

PlainBuild(t) == req[t].kind = "build" /\ ~req[t].refresh

\* the server started on a cache directory without a manifest
ColdStart == blog = <<>> \/ blog[1] # "warmup"

PlainRuns == {i \in DOMAIN blog : blog[i] = "plain"}

\* C1: two concurrent /build requests without refresh on a cache that has no
\* manifest run build_bundles once between them, and when that run is the
\* only one both requests answer with its manifest.
C1_OneBuildForTwo ==
    \A t \in Threads, u \in Threads :
        (t # u /\ PlainBuild(t) /\ PlainBuild(u) /\ ColdStart) =>
            /\ Cardinality(PlainRuns) <= 1
            /\ (pc[t] = "done" /\ pc[u] = "done" /\ PlainRuns = DOMAIN blog) =>
                   /\ Len(blog) = 1
                   /\ resp[t].what = "manifest" /\ resp[u].what = "manifest"
                   /\ resp[t].status = 200 /\ resp[u].status = 200
                   /\ resp[t].meta = resp[u].meta
                   /\ resp[t].meta.gen = 1
                   /\ disk.meta = [st |-> "full", body |-> resp[t].meta]

C1_Witness ==
    /\ ColdStart
    /\ blog = <<"plain">>
    /\ \E t \in Threads, u \in Threads :
        /\ t # u
        /\ PlainBuild(t) /\ PlainBuild(u)
        /\ pc[t] = "done" /\ pc[u] = "done"
        /\ resp[t].meta.gen = 1 /\ resp[u].meta.gen = 1

\* C2: a reader of meta.json (/meta, /all?part=N) never gets a partially
\* written or empty manifest while a build is running.  Violated: the build
\* truncates meta.json with open(.., "w") and the readers take no lock.
C2_NeverHalfWritten ==
    \A t \in Threads :
        /\ resp[t].what = "metafile" => resp[t].fst = "full"
        /\ (req[t].kind = "all" /\ pc[t] = "done") => resp[t].what # "dropped"

\* C6: /build runs the builder exactly when refresh=1 or meta.json is absent;
\* otherwise it sends the stored manifest and leaves the cache as it was, and
\* a change of the source tree changes nothing in the cache.
C6_BuildOrReuse ==
    [][\A t \in Threads :
          /\ (pc[t] = "b_lock" /\ pc'[t] # "b_lock") =>
                 ((Len(blog') = Len(blog) + 1)
                      <=> (req[t].refresh \/ disk.meta.st = "absent"))
          /\ (pc[t] = "b_lock" /\ pc'[t] = "b_load") =>
                 (disk' = disk /\ blog' = blog)
          /\ (pc[t] = "b_load" /\ pc'[t] = "done") =>
                 /\ disk' = disk /\ blog' = blog
                 /\ resp'[t].what = "manifest"
                 /\ resp'[t].meta = disk.meta.body
          /\ (tree' # tree) => (disk' = disk /\ blog' = blog)]_vars

C6_Witness ==
    /\ edits > 0
    /\ blog = <<"warmup">>
    /\ \E t \in Threads :
        /\ PlainBuild(t) /\ pc[t] = "done"
        /\ resp[t].what = "manifest"
        /\ resp[t].meta = disk.meta.body
        /\ resp[t].meta.files_included # Cardinality(Included(tree))

\* ---------------------------------------------------------------------
\* Launcher claims (SpecLauncher)
\* ---------------------------------------------------------------------

Spawned ==
    {c \in Children : (c = "server_proc" /\ server_proc # "none")
                          \/ (c = "cf_proc" /\ cf_proc # "none")}

\* C3: whenever a launcher has exited after spawning children, terminate()
\* has been called on every child it spawned.  Violated: start_multi_repo_tunnel
\* and start_multi_tunnel call sys.exit in the startup phases without it, and
\* no launcher handles Ctrl+C before the monitoring loop.
C3_ChildrenTerminated ==
    lpc = "exited" => Spawned \subseteq terminated

\* C4: when the URL wait ends because of something the tunnel client did,
\* it ends with what the client did first.  Violated: each iteration asks
\* poll() first, then the failure queue, then the URL queue.
C4_FirstEventWins ==
    (wait_end \in {"url", "fail", "exit"} /\ emitted # <<>>) =>
        wait_end = emitted[1]

\* ---------------------------------------------------------------------
\* /file claims (SpecFile)
\* ---------------------------------------------------------------------

\* where the file system gets to from directory at by the components of a
\* relative path: "" and "." stay, ".." goes to the parent (the parent of
\* the top directory is itself), a name goes one level down
RECURSIVE WalkFrom(_, _)
WalkFrom(at, comps) ==
    IF comps = <<>> THEN at
    ELSE LET c == Head(comps)
         IN  IF c = <<>> \/ c = <<".">> THEN WalkFrom(at, Tail(comps))
             ELSE IF c = <<".", ".">>
             THEN WalkFrom(IF at = <<>> THEN at ELSE SubSeq(at, 1, Len(at) - 1),
                           Tail(comps))
             ELSE WalkFrom(Append(at, c), Tail(comps))

RootAt == << <<"a">> >>

Location == WalkFrom(RootAt, SplitOn(RelOf(fpath), Seps(fsep)))

Outside ==
    Len(Location) < Len(RootAt) \/ SubSeq(Location, 1, Len(RootAt)) # RootAt

NoBuildRunning ==
    \A t \in Threads : pc[t] \notin {"bb_bundle", "bb_meta_open", "bb_meta_dump", "bb_index"}

\* C11: after every completed build the bundle files in the cache directory
\* are exactly the files the manifest names, in order, all written by that
\* build.  Violated: build_bundles overwrites bundle_0001.. and never removes
\* a file, so a rebuild with fewer chunks leaves the higher-numbered files of
\* the build before it.
C11_ChunksAreManifest ==
    (NoBuildRunning /\ disk.meta.st = "full") =>
        /\ Len(disk.bundles) = disk.meta.body.bundle_count
        /\ \A i \in DOMAIN disk.bundles :
               /\ disk.meta.body.bundle_files[i] = i
               /\ disk.bundles[i].gen = disk.meta.body.gen

\* ---------------------------------------------------------------------
\* Reader claims (SpecReaders)
\* ---------------------------------------------------------------------

\* a request for /tree, /file or /all?part=N
Reader(t) ==
    req[t].kind \in {"tree", "file"} \/ (req[t].kind = "all" /\ req[t].part.given)

\* the handler of thread t can take its next step
CanStep(t) ==
    \/ ENABLED TreeServe(t)
    \/ ENABLED FileServe(t)
    \/ ENABLED AllCheck(t)
    \/ ENABLED AllServe(t)
    \/ ENABLED AllLoad(t)
    \/ ENABLED AllSend(t)

\* C12: with the artifacts in place, a /tree, /file or /all?part=N request
\* never holds or waits for the build lock, and whoever holds the lock, its
\* handler can always take its next step.
C12_ReadersNeverBlocked ==
    \A t \in Threads :
        (Reader(t) /\ pc[t] # "done") =>
            /\ lock # t
            /\ pc[t] # "a_lock"
            /\ CanStep(t)

\* a chunk was served from the files of a build that still holds the lock
C12_Witness ==
    \E t \in Threads, u \in Threads :
        /\ t # u
        /\ lock = u /\ pc[u] \in {"bb_bundle", "bb_meta_open", "bb_meta_dump", "bb_index"}
        /\ Reader(t) /\ pc[t] = "done"
        /\ resp[t].what = "bundlefile"
        /\ resp[t].gen = loc[u].gen

\* ---------------------------------------------------------------------
\* Multi-repository claims (SpecMulti)
\* ---------------------------------------------------------------------

Building(r) == {t \in Threads : mpc[t] = "build" /\ mreq[t].repo = r}

\* C13: at most one build per repository is in flight, and a handler that
\* wants to build a repository with no build in flight gets that
\* repository's lock whatever is being built for the other repositories.
C13_PerRepoLock ==
    /\ \A r \in Repos : Cardinality(Building(r)) <= 1
    /\ \A t \in Threads :
           (mpc[t] = "lock" /\ Building(mreq[t].repo) = {}) => ENABLED MultiAcquire(t)

\* two repositories are being built at the same time
C13_Witness ==
    \E r1 \in Repos, r2 \in Repos :
        r1 # r2 /\ Building(r1) # {} /\ Building(r2) # {}

\* ---------------------------------------------------------------------
\* Status code claims (SpecHandlers)
\* ---------------------------------------------------------------------

\* thread t has answered (or dropped) a request of one of the kinds
Answered(t, kinds) == pc[t] = "done" /\ req[t].kind \in kinds

\* len(meta["bundle_files"]) of the manifest in the cache directory
bundle_count == Len(disk.meta.body.bundle_files)

\* C14: with a cache present, /all?part=N answers 404 for every integer N
\* above bundle_count and 400 for N = 0 and for a part that is no integer.
\* Violated: part=0 passes int() and falls in the range test, which answers
\* 404.
C14_PartStatus ==
    \A t \in Threads :
        (Answered(t, {"all"}) /\ req[t].part.given /\ ~Missing(disk)) =>
            /\ (req[t].part.isint /\ req[t].part.n > bundle_count)
                   => resp[t].status = 404
            /\ (~req[t].part.isint \/ req[t].part.n = 0)
                   => resp[t].status = 400

\* C15: with meta.json or index.txt missing and auto-build off, /meta and
\* /all, with or without part, answer 404.  Violated: /all answers 200 with
\* the text "# No cache yet. Run: GET /build".
C15_NoCacheIs404 ==
    \A t \in Threads :
        (Answered(t, {"meta", "all"}) /\ ~auto_build /\ Missing(disk)) =>
            resp[t].status = 404

\* the request of thread t met a read or I/O error: a file that passed the
\* /file checks and cannot be read, a manifest that cannot be parsed, or a
\* build that failed
HitError(t) ==
    \/ /\ req[t].kind = "file"
       /\ tree[req[t].path].kind = "unreadable"
    \/ /\ req[t].kind = "all" /\ req[t].part.given /\ req[t].part.isint
       /\ ~Missing(disk) /\ disk.meta.st = "empty"
    \/ resp[t].what \in {"dropped", "read error"}

\* C16: a /file, /build, /meta or /all request that meets a read or I/O
\* error is answered with status 500 and a plain-text message.  Violated:
\* /file sends the 200 header before it reads and writes "(read error)" in
\* the body, and json.load and build_bundles are called outside any try, so
\* their exceptions leave do_GET and the connection is closed unanswered.
C16_ErrorsAre500 ==
    \A t \in Threads :
        (Answered(t, {"file", "build", "meta", "all"}) /\ HitError(t)) =>
            /\ resp[t].status = 500
            /\ resp[t].what = "text"

\* iter_repo_files yields path p for the tree as it is
Yielded(p) == \E walk \in WalkOrders(tree) : p \in Range(iter_repo_files(tree, walk))

\* C17: /file answers 200 with content only for a path that iter_repo_files
\* yields; a path under an ignored directory, a symlink, or a blocked name,
\* extension or content gets 403.  Violated: /file tests only the base name,
\* the extension and the content sniff, so it serves files under ignored
\* directories and symlinks.
C17_FileOnlyDiscovered ==
    \A t \in Threads :
        Answered(t, {"file"}) =>
            /\ resp[t].status = 200 => Yielded(req[t].path)
            /\ tree[req[t].path].kind \in IgnoredKinds \cup {"binary"}
                   => resp[t].status = 403

\* ---------------------------------------------------------------------
\* Launcher failure claims (SpecLauncher)
\* ---------------------------------------------------------------------

\* C18: in every launcher, a "failed to request quick tunnel" line taken
\* from the error queue ends the URL wait with a failure, not a URL, and the
\* line is kept as the error detail.  Violated: start_multi_tunnel reads the
\* line into _fail and drops it; the instance is later reported only as
\* "no public url".
C18_FailLineReported ==
    wait_end = "fail" => (fail_line /\ ~public_url)

\* C20: the multi-instance launcher ends only on a configuration error or
\* when the user stops it.  Violated: a local health timeout exits with 3, a failed public
\* check in strict mode with 6, a tunnel client that cannot be started ends
\* main, and the monitoring loop ends the launcher and every instance when
\* any child has exited.
C20_EndsOnlyOnUserStop ==
    [][(launcher = "multi" /\ lpc # "exited" /\ lpc' = "exited")
          => (ConfigFatal \/ Interrupt)]_vars

\* ---------------------------------------------------------------------
\* Output pump claims (SpecPump)
\* ---------------------------------------------------------------------

\* https://brave-otter-quick-tunnel.example.trycloudflare.com
ExampleLine == <<"https://", "brave-otter-quick-tunnel", ".example", ".trycloudflare.com">>

\* https://brave-otter-quick-tunnel.trycloudflare.com
QuickLine == <<"https://", "brave-otter-quick-tunnel", ".trycloudflare.com">>

\* https://api.trycloudflare.com
ApiLine == <<"https://", "api", ".trycloudflare.com">>

\* the pump has read the line
Pumped(line) == nread = 1 /\ cf_out[1] = line

\* the pump put a URL on the queue exactly when the line had a match whose
\* host, in lower case, contains "-" and is not "api"
HostRule ==
    nread = 1 =>
        IF matched # <<>> /\ HasDash(matched) /\ Lower(matched) # <<"api">>
        THEN url_queue = <<matched>>
        ELSE url_queue = <<>>

\* C19 as stated: the pump puts a URL on the queue for the line
\* https://brave-otter-quick-tunnel.example.trycloudflare.com, nothing for
\* https://api.trycloudflare.com, and a matched host is accepted iff it
\* contains "-" and is not "api".  Violated: TRY_HOST_RE takes one label of
\* [a-z0-9-] right before .trycloudflare.com, so the first line has no match.
C19_ExampleHostAccepted ==
    /\ Pumped(ExampleLine) => url_queue = <<<<"brave-otter-quick-tunnel">>>>
    /\ Pumped(ApiLine) => url_queue = <<>>
    /\ HostRule

\* C19 (amended): the pump puts a URL on the queue for the line
\* https://brave-otter-quick-tunnel.trycloudflare.com, nothing for
\* https://brave-otter-quick-tunnel.example.trycloudflare.com and nothing
\* for https://api.trycloudflare.com; a matched host is accepted iff, in
\* lower case, it contains "-" and is not "api".
C19_QuickHostAccepted ==
    /\ Pumped(QuickLine) => url_queue = <<<<"brave-otter-quick-tunnel">>>>
    /\ Pumped(ExampleLine) => url_queue = <<>>
    /\ Pumped(ApiLine) => url_queue = <<>>
    /\ HostRule

\* the pump read the one-label line and put its URL on the queue
C19_Witness ==
    /\ Pumped(QuickLine)
    /\ ppc = "ended"
    /\ url_queue = <<<<"brave-otter-quick-tunnel">>>>

\* ---------------------------------------------------------------------
\* Launcher lifecycle claims (SpecLauncher)
\* ---------------------------------------------------------------------

\* C21: a configuration error, a missing tunnel client executable included,
\* ends the launcher before any child is spawned.  Violated: the executable
\* is only found missing by Popen, after the server child is running.
C21_ConfigErrorBeforeSpawn ==
    [][(ConfigFatal \/ CfNotFound) => (server_proc = "none" /\ cf_proc = "none")]_vars

\* a child of the launcher has exited
ChildGone == server_proc = "exited" \/ cf_proc = "exited"

C23_ClientThenServer ==
    \A i \in DOMAIN term_log :
        /\ term_log[i].child = "cf_proc" =>
               (i < Len(term_log) /\ term_log[i + 1].child = "server_proc")
        /\ term_log[i].child = "server_proc" =>
               \A j \in DOMAIN term_log : j > i => term_log[j].child # "cf_proc"

\* the tunnel client's terminate() raised and the server's was still called
C23_Witness ==
    /\ lpc = "exited"
    /\ term_log = <<[child |-> "cf_proc", raised |-> TRUE],
                    [child |-> "server_proc", raised |-> FALSE]>>

\* the lifecycle state main is in: INIT 0, PORT_ALLOCATED 1 (about to start
\* the server), SERVER_STARTED 2 (waiting for the local /health),
\* LOCAL_HEALTHY 3 (about to start the tunnel client), TUNNEL_STARTED 4 (the
\* URL wait), PUBLIC_URL_KNOWN 5 (the public check), PUBLIC_HEALTHY and
\* MONITORING 6, TERMINATED or FAILED 7
Stage(at) ==
    CASE at = "config" -> 0
      [] at = "start" -> 1
      [] at = "local_health" -> 2
      [] at = "start_cf" -> 3
      [] at \in {"w_head", "w_poll", "w_err", "w_url", "after_wait"} -> 4
      [] at \in {"public_check", "public_wait", "public_warned"} -> 5
      [] at = "monitor" -> 6
      [] OTHER -> 7

\* C24: main goes through the lifecycle states in order, one at a time
\* unless it ends; the tunnel client is spawned only after the local
\* /health answered, and monitoring begins only with the public URL known.
\* Violated: start_multi_tunnel goes from the URL wait to monitoring for an
\* instance that got no URL.
C24_LifecycleInOrder ==
    [][/\ Stage(lpc') >= Stage(lpc)
       /\ Stage(lpc') > Stage(lpc) + 1 => lpc' = "exited"
       /\ (cf_proc = "none" /\ cf_proc' # "none") => lpc = "start_cf"
       /\ lpc' = "monitor" => public_url']_vars

\* C25: a local-health wait or URL wait that runs into its deadline ends the
\* launcher in a failure; it is never followed by the public check or the
\* monitoring loop.  Violated: start_multi_tunnel only warns about an
\* instance whose URL did not come within 60 s and goes on to monitoring.
C25_DeadlineIsFailure ==
    [][/\ LocalHealthTimeout => (lpc' = "exited" /\ exit_code' # 0)
       /\ wait_end' = "timeout" =>
              /\ lpc' \in {"after_wait", "exited"}
              /\ lpc' = "exited" => exit_code' # 0]_vars

\* ---------------------------------------------------------------------
\* Fingerprint claims (SpecFingerprint)
\* ---------------------------------------------------------------------

\* two calls were made on lists of the same paths
SamePaths(c, d) == Range(c.input) = Range(d.input)

C27_NamesDistinct ==
    un_out.called =>
        /\ \A i \in DOMAIN un_out.names, j \in DOMAIN un_out.names :
               i # j => un_out.names[i] # un_out.names[j]
        /\ \A i \in DOMAIN un_items :
               un_items[i].valid => un_out.repos[un_out.names[i]] = i

\* main leaves the place at by a step of its own, not by Ctrl+C
Leaves(at) == lpc = at /\ lpc' # at /\ ~(lpc' = "exited" /\ exit_code' = 130)

\* C28: with --public-check off no public request is made and main goes on
\* to monitoring; otherwise the check is made, a check that succeeds goes on
\* to monitoring, and one that fails goes on to monitoring after the warning
\* with warn and ends the launcher in failure with strict.
C28_PublicCheckModes ==
    [][/\ public_check = "off" => lpc' \notin {"public_wait", "public_warned"}
       /\ Leaves("public_check") =>
              lpc' = IF public_check = "off" THEN "monitor" ELSE "public_wait"
       /\ Leaves("public_wait") => lpc' \in {"monitor", "public_warned"}
       /\ Leaves("public_warned") =>
              IF public_check = "strict"
              THEN lpc' = "exited" /\ exit_code' \notin {0, 130}
              ELSE lpc' = "monitor"]_vars

\* start_quick_tunnel ended after a failed public check under strict
C28_Witness ==
    /\ launcher = "quick"
    /\ public_check = "strict"
    /\ lpc = "exited"
    /\ exit_code = 6
    /\ public_url

\* the free ports the loop of pick_free_port can reach
FreeWithin == {p \in 0..(MaxTries - 1) : p \notin port_busy}

\* C29: once the port selection has ended: a free requested port is the one
\* used; a busy one without --auto-port is fatal; a busy one with --auto-port
\* gives the lowest free port above it among the max_tries candidates, and an
\* error when none of them is free. No server is spawned on either failure.
C29_PortSelection ==
    /\ port_tries <= MaxTries
    /\ port_pc \in {"fatal", "error"} => server_proc = "none"
    /\ port_pc \in {"done", "spawned", "fatal", "error"} =>
           IF 0 \notin port_busy
           THEN port_pc \in {"done", "spawned"} /\ port_p = 0
           ELSE IF ~port_auto
           THEN port_pc = "fatal"
           ELSE IF FreeWithin = {}
           THEN port_pc = "error"
           ELSE /\ port_pc \in {"done", "spawned"}
                /\ port_p = Min(FreeWithin)
                /\ port_p > 0

\* the server runs on a port picked past two busy ones
C29_Witness ==
    /\ port_pc = "spawned"
    /\ server_proc = "running"
    /\ port_auto
    /\ {0, 1} \subseteq port_busy
    /\ port_p = 2

\* C30: the chunk sent for /all?part=N is a file of the build whose manifest
\* the request loaded.
C30_ChunkOfConsultedBuild ==
    \A t \in Threads :
        resp[t].what = "bundlefile" => resp[t].gen = resp[t].meta.gen

\* ---------------------------------------------------------------------
\* Packing, discovery and truncation claims (SpecBuild)
\* ---------------------------------------------------------------------

\* the bytes of the i-th chunk artifact
ChunkSize(i) == SumSeq([j \in 1..Len(Chunks[i]) |-> Chunks[i][j][2]])

\* the i-th chunk is one file block and nothing else
OneBlockAlone(i) == Len(Chunks[i]) = 1 /\ Chunks[i][1][1] # 0

\* the i-th chunk is the bundle header and nothing else
HeaderAlone(i) == Len(Chunks[i]) = 1 /\ Chunks[i][1][1] = 0

\* a chunk was sealed exactly when it held something and the block that
\* opens the next chunk would have made it exceed chunk_bytes
SealedWhenFull ==
    /\ \A i \in 1..Len(Chunks) : Len(Chunks[i]) > 0
    /\ \A i \in 1..(Len(Chunks) - 1) :
          ChunkSize(i) + Chunks[i + 1][1][2] > chunk_bytes

\* C31 (as stated): chunks are sealed exactly when non-empty and the next
\* block would exceed chunk_bytes, hence every chunk artifact has at most
\* chunk_bytes bytes or is one file block and nothing else.
C31_ChunkWithinLimitOrOneBlock ==
    Built =>
        /\ SealedWhenFull
        /\ \A i \in 1..Len(Chunks) : ChunkSize(i) <= chunk_bytes \/ OneBlockAlone(i)

\* C31 (amended): chunks are sealed exactly when non-empty and the next block
\* would exceed chunk_bytes, hence every chunk artifact has at most
\* chunk_bytes bytes, or is one file block and nothing else, or is the bundle
\* header and nothing else.
C31_ChunkWithinLimitOrAlone ==
    Built =>
        /\ SealedWhenFull
        /\ \A i \in 1..Len(Chunks) :
              ChunkSize(i) <= chunk_bytes \/ OneBlockAlone(i) \/ HeaderAlone(i)

\* a build whose bundle header is longer than chunk_bytes, with a chunk of
\* one block larger than chunk_bytes
C31_Witness ==
    /\ Built
    /\ HeaderLen > chunk_bytes
    /\ \E i \in 1..Len(Chunks) : OneBlockAlone(i) /\ ChunkSize(i) > chunk_bytes

\* C32: for the same file system state, /file answers 200 for every path
\* that /tree lists, and /tree lists no file that the name, extension or
\* binary-content check blocks.
C32_TreeListsServable ==
    \A t \in Threads :
        resp[t].what = "tree" =>
            \A p \in Range(resp[t].pieces) :
                /\ FileAnswer(tree, p).status = 200
                /\ ~FileBlocked(tree, p)

\* index.txt and meta.json are both there or both missing, and where both
\* can be read they give the same fingerprint and chunk count
IndexMatchesManifest ==
    /\ (disk.index.st = "absent") <=> (disk.meta.st = "absent")
    /\ (disk.index.st = "full" /\ disk.meta.st # "absent") =>
           /\ disk.meta.st = "full"
           /\ disk.index.body.fingerprint = disk.meta.body.fingerprint
           /\ disk.index.body.bundles = disk.meta.body.bundle_count

\* C33: whenever a request is about to read meta.json or index.txt, the two
\* files are there together and agree on fingerprint and chunk count.
C33_IndexWithManifest ==
    \A t \in Threads :
        pc[t] \in {"m_check", "m_send", "a_check", "a_serve", "a_load"} =>
            IndexMatchesManifest

\* every run of build_bundles so far was started by /all with --auto-build
OnlyAutoBuilds == \A i \in DOMAIN blog : blog[i] = "auto"

\* C34: with --auto-build on a cache that had no manifest or index, while
\* /all is the only thing that builds: build_bundles runs once however many
\* /all requests found the artifacts missing, so no request waits for more
\* than that run, and every /all request that is answered was answered after
\* that run and not with "No cache yet".
C34_OneAutoBuild ==
    (auto_build /\ ColdStart /\ OnlyAutoBuilds) =>
        /\ Len(blog) <= 1
        /\ \A t \in Threads :
              (req[t].kind = "all" /\ pc[t] = "done") =>
                  /\ Len(blog) = 1
                  /\ resp[t] # Text(200)

\* one /all request built and was answered; another, which had found the
\* artifacts missing meanwhile, is about to take the lock and test again
C34_Witness ==
    /\ auto_build /\ ColdStart
    /\ blog = <<"auto">>
    /\ \E t \in Threads, u \in Threads :
        /\ t # u
        /\ req[t].kind = "all" /\ req[u].kind = "all"
        /\ pc[t] = "done" /\ pc[u] = "a_lock"
        /\ lock = 0

InCacheDir(p) ==
    Len(p) > Len(cache_dirname) /\ SubSeq(p, 1, Len(cache_dirname)) = cache_dirname

\* C36: Discovery yields no file below a directory that fails the directory
\* rule, no symlink and no file of the cache directory; so no build packs a
\* cache artifact and builds of the unchanged tree all give a bundle of the
\* same size.
C36_CacheNeverDiscovered ==
    /\ \A i \in DOMAIN cache_log :
          \A p \in cache_log[i].yielded :
              /\ \A j \in 1..(Len(p) - 1) : ~is_ignored_dir(p[j])
              /\ \A e \in src_files : e.path = p => e.link = "no"
              /\ ~InCacheDir(p)
    /\ \A i \in DOMAIN cache_log, j \in DOMAIN cache_log :
          cache_log[i].size = cache_log[j].size

\* the request ran build_bundles and the run returned
BuiltNow(t) ==
    /\ req[t].kind = "build" /\ pc[t] = "done"
    /\ resp[t].what = "manifest"
    /\ blog # <<>> /\ blog[Len(blog)] \in {"plain", "refresh"}

\* the request ran build_bundles on a cache directory that was not there,
\* and the run raised
FailedBuild(t) ==
    /\ pc[t] = "done"
    /\ resp[t].what = "dropped"
    /\ Len(blog) = 1 /\ blog[1] # "warmup"

\* C37: a build over a tree with a file that cannot be read writes the
\* manifest and the index, packs one block for every file that can be read
\* and none for the others, and counts the blocks written in
\* files_included; a build that fails to create the cache directory leaves
\* no manifest and no index.
C37_UnreadableOmitted ==
    \A t \in Threads :
        /\ BuiltNow(t) =>
              /\ disk.meta = [st |-> "full", body |-> resp[t].meta]
              /\ disk.index.st = "full"
              /\ \A p \in Paths :
                    Cardinality(PiecesOf(p)) = IF tree[p].kind = "text" THEN 1 ELSE 0
              /\ disk.meta.body.files_included =
                    Cardinality({p \in Paths : tree[p].kind = "text"})
        /\ FailedBuild(t) => (disk.meta.st = "absent" /\ disk.index.st = "absent")

\* a build that met a file it could not read and packed the other one
C37_Witness ==
    \E t \in Threads :
        /\ BuiltNow(t)
        /\ tree[1].kind = "unreadable"
        /\ tree[2].kind = "text"
        /\ disk.meta.body.files_included = 1

\* C38: the block is marked truncated exactly when the file has more than
\* max_single_file_bytes bytes and then holds the first max_single_file_bytes
\* bytes of the file, and else holds the whole file; SIZE is the file's size.
C38_TruncatedIffOverLimit ==
    tr_block.done =>
        LET raw == encode(tr_file)
        IN  /\ tr_block.truncated <=> (Len(raw) > tr_limit)
            /\ tr_block.size = Len(raw)
            /\ tr_block.content =
                  IF Len(raw) > tr_limit THEN SubSeq(raw, 1, tr_limit) ELSE raw

\* the manifest on disk names bundle files 1, 2, .. and counts them, and
\* every file it names is there
ManifestNumbered ==
    disk.meta.st = "full" =>
        LET m == disk.meta.body
        IN  /\ m.bundle_count = Len(m.bundle_files)
            /\ \A i \in 1..Len(m.bundle_files) : m.bundle_files[i] = i
            /\ \A i \in 1..m.bundle_count :
                  i <= Len(disk.bundles) /\ disk.bundles[i].st = "full"

\* an /all?part=N request with N in the manifest's range has been answered
\* with the file that is the N-th entry of bundle_files
PartServed ==
    \A t \in Threads :
        (/\ req[t].kind = "all" /\ pc[t] = "done"
         /\ req[t].part.given /\ req[t].part.isint
         /\ ~Missing(disk) /\ disk.meta.st = "full"
         /\ req[t].part.n >= 1 /\ req[t].part.n <= disk.meta.body.bundle_count) =>
            /\ resp[t].status = 200 /\ resp[t].what = "bundlefile"
            /\ resp[t].pieces =
                  disk.bundles[disk.meta.body.bundle_files[req[t].part.n]].pieces

\* the steps of /all?part=N: a part number within the range of the manifest
\* read goes on to the send, and the send answers with the file that the
\* manifest read names in its N-th entry
PartFromManifest ==
    \A t \in Threads :
        /\ (/\ pc[t] = "a_load" /\ pc'[t] # "a_load"
            /\ disk.meta.st = "full"
            /\ req[t].part.n >= 1 /\ req[t].part.n <= disk.meta.body.bundle_count) =>
               (pc'[t] = "a_send" /\ loc'[t].meta = disk.meta.body)
        /\ (pc[t] = "a_send" /\ pc'[t] # "a_send") =>
               /\ resp'[t].status = 200 /\ resp'[t].what = "bundlefile"
               /\ resp'[t].pieces =
                     disk.bundles[loc[t].meta.bundle_files[req[t].part.n]].pieces

\* when build_bundles opens meta.json, bundle file i holds the i-th chunk
\* packed, for every chunk
ChunksBeforeManifest ==
    \A t \in Threads :
        (pc[t] = "bb_meta_open" /\ pc'[t] # "bb_meta_open") =>
            /\ loc[t].meta.bundle_count = Len(loc[t].parts)
            /\ \A i \in 1..Len(loc[t].parts) :
                  /\ i <= Len(disk.bundles)
                  /\ disk.bundles[i] = BundleFile(loc[t].gen, loc[t].parts[i])

\* C39: bundle files are numbered from 1 in packing order, bundle_count is
\* the length of bundle_files, meta.json is written after all its bundle
\* files, and /all?part=N with 1 <= N <= bundle_count sends the N-th entry of
\* bundle_files.
C39_NumberedChunksServed ==
    /\ [](ManifestNumbered /\ PartServed)
    /\ [][ChunksBeforeManifest /\ PartFromManifest]_vars

\* /all?part=2 answered with the second of several bundle files
C39_Witness ==
    \E t \in Threads :
        /\ req[t].kind = "all" /\ pc[t] = "done"
        /\ req[t].part.n = 2
        /\ resp[t].what = "bundlefile"
        /\ disk.meta.body.bundle_count >= 2
        /\ resp[t].pieces = disk.bundles[2].pieces
        /\ resp[t].pieces # disk.bundles[1].pieces

====
